---- MODULE Spec2Model ----
(***************************************************************************)
(* Gradient canonicalization, analytic segments, lookup table and table    *)
(* cache of src/shaders/gradients/SkGradientShader.cpp.                    *)
(*                                                                         *)
(* Numbers.  SkScalar positions are fixed-point integers in units of       *)
(* 1/PosScale, color channels are integers in units of 1/ColScale, and     *)
(* SkPM4f values (the output of prepareColor) are in units of 1/ColScale^2 *)
(* so that premultiplication is exact.  Quotients of the code (segment     *)
(* slopes, texel steps) are kept as exact fractions; float rounding is not *)
(* modelled.  Arrays are 1-based here and 0-based in the source.           *)
(***************************************************************************)
EXTENDS Integers, Sequences, FiniteSets, TLC

VARIABLES
    \* one gradient: the caller's arrays, the descriptor given to the
    \* constructor, the constructed shader, and what a consumer derived
    raw, desc, shader, phase, out,
    \* the table cache: the callers' positions, keys and bitmaps, the mutex,
    \* the cache, the pixel storage, and the history of returns and evictions
    sweep, pc, key, mutex, gCache, bitmap, pixels, didInit,
    returned, evictions, maxKey

gradVars  == <<raw, desc, shader, phase, out>>
cacheVars == <<sweep, pc, key, mutex, gCache, bitmap, pixels, didInit,
               returned, evictions, maxKey>>
vars      == <<raw, desc, shader, phase, out,
               sweep, pc, key, mutex, gCache, bitmap, pixels, didInit,
               returned, evictions, maxKey>>

----------------------------------------------------------------------------
(* Bounds of the model *)

\* largest caller-supplied stop count with arbitrary positions
MaxCount == 3
\* largest stop count of the nearly-uniform position family
MaxUniform == 5
\* threads calling getGradientTableBitmap concurrently
NumThreads == 2
\* distinct keys the concurrent callers choose from
NumKeys == 2
\* distinct keys of the single-caller sweep that fills the cache
SweepKeys == 33
\* tables built while gradients ask the cache for theirs one after another
MaxTables == 2

----------------------------------------------------------------------------
(* Scalars *)

\* one unit of position is 1/PosScale; divisible by 4096, 100 and 1..7
PosScale == 4096 * 525
SK_Scalar1 == PosScale
\* SK_ScalarNearlyZero is 1/(1 << 12)
SK_ScalarNearlyZero == PosScale \div 4096
\* the channel value 1.0f: one unit of a color channel is 1/ColScale
ColScale == 2

Abs(x) == IF x < 0 THEN -x ELSE x
Min(a, b) == IF a < b THEN a ELSE b
Max(a, b) == IF a > b THEN a ELSE b
B2I(b) == IF b THEN 1 ELSE 0

SkScalarNearlyZero(x) == Abs(x) <= SK_ScalarNearlyZero
SkScalarNearlyEqual(x, y) == Abs(x - y) <= SK_ScalarNearlyZero
\* SkScalarPin(x, lo, hi) = max(lo, min(x, hi))
SkScalarPin(x, lo, hi) == Max(lo, Min(x, hi))

----------------------------------------------------------------------------
(* Colors: SkColor4f as <<r, g, b, a>> *)

Red   == <<ColScale, 0, 0, ColScale>>
Green == <<0, ColScale, 0, ColScale>>
Blue  == <<0, 0, ColScale, ColScale>>
Smoke == <<ColScale, ColScale, 0, 1>>
Palette == <<Red, Green, Blue, Smoke>>

kClamp_TileMode  == "Clamp"
kRepeat_TileMode == "Repeat"
kMirror_TileMode == "Mirror"
kDecal_TileMode  == "Decal"
TileModes == {kClamp_TileMode, kRepeat_TileMode, kMirror_TileMode, kDecal_TileMode}
kTileModeCount == 4

kInterpolateColorsInPremul_Flag == 1
GradFlags == {0, kInterpolateColorsInPremul_Flag}

\* a null pointer for fPos / fOrigPos
NoPos == <<>>
None  == [none |-> TRUE]

\* SkMatrix as its nine values, row by row; a null SkMatrix pointer
NoMatrix == << >>
SkMatrixI == << 1, 0, 0,  0, 1, 0,  0, 0, 1 >>
ScaleMatrix == << 2, 0, 0,  0, 2, 0,  0, 0, 1 >>
LocalMatrices == {NoMatrix, SkMatrixI, ScaleMatrix}
isIdentity(m) == m = SkMatrixI

\* SkColorSpace::MakeSRGB(): the color space of a gradient given none
SkColorSpaceSRGB == "sRGB"
\* a null sk_sp<SkColorSpace>, and a null sk_sp<SkData>
NoColorSpace == "nullptr"
NoData == << >>

----------------------------------------------------------------------------
(* Caller inputs *)

PosValues == { -(PosScale \div 4), 0, 300, PosScale \div 2,
               PosScale, PosScale + (PosScale \div 4) }

SeqsOfLen(S, n) == [1..n -> S]

GeneralPos == UNION { SeqsOfLen(PosValues, n) : n \in 2..MaxCount }

Deltas == { 0, SK_ScalarNearlyZero, SK_ScalarNearlyZero + 1,
            -SK_ScalarNearlyZero, -(SK_ScalarNearlyZero + 1), -(PosScale \div 100) }

\* evenly spaced stops with one stop moved by a delta
UniformPos ==
    { [i \in 1..n |-> ((i - 1) * PosScale) \div (n - 1) + (IF i = j THEN d ELSE 0)] :
        n \in 2..MaxUniform, j \in 1..MaxUniform, d \in Deltas }

ExamplePos == { << (3 * PosScale) \div 10, (7 * PosScale) \div 10 >>,
                << 0, 0, 0, PosScale >>,
                << 0, PosScale - 300, PosScale >>,
                << 0, PosScale \div 2, PosScale \div 2, PosScale >>,
                \* gaps within the tolerance of the first gap, the fourth
                \* stop further than the tolerance from 3/4
                << 0, (PosScale \div 4) - 131, (PosScale \div 2) + 262,
                   ((3 * PosScale) \div 4) + 655, PosScale >> }

PosInputs == GeneralPos \cup UniformPos \cup ExamplePos

PaletteAt(i) == Palette[((i - 1) % Len(Palette)) + 1]

\* color arrays of n stops with positions: distinct neighbours, equal first
\* two, equal last two, and a translucent first stop
ColorPatterns(n) ==
    { [i \in 1..n |-> PaletteAt(i)],
      [i \in 1..n |-> IF i = 1 THEN PaletteAt(2) ELSE PaletteAt(i)],
      [i \in 1..n |-> IF i = n THEN PaletteAt(n - 1) ELSE PaletteAt(i)],
      [i \in 1..n |-> PaletteAt(i + 3)] }

\* without positions: every pair of palette colors, and the patterns
ColorsNoPos(n) ==
    IF n = 2 THEN SeqsOfLen({Palette[i] : i \in 1..Len(Palette)}, 2)
             ELSE ColorPatterns(n)

\* positions of the gradients that ask the cache for their table: uniform,
\* nearly uniform, a hard stop at 0, and ends to be bracketed
TablePos == { << 0, PosScale \div 2, PosScale >>,
              << 0, (PosScale \div 2) + SK_ScalarNearlyZero, PosScale >>,
              << 0, 0, PosScale >>,
              << 300, PosScale \div 2 >> }
\* their colors: distinct opaque neighbours, or a translucent first stop
TableColors(n) == { [i \in 1..n |-> PaletteAt(i)], [i \in 1..n |-> PaletteAt(i + 3)] }
TableInputs ==
    UNION { { [colors |-> c, pos |-> p, count |-> Len(p)] : c \in TableColors(Len(p)) } :
            p \in TablePos }
    \cup
    UNION { { [colors |-> c, pos |-> NoPos, count |-> n] : c \in TableColors(n) } :
            n \in 2..3 }
TableModes == {kClamp_TileMode, kRepeat_TileMode}

\* a stop below 0 followed by stops one tolerance apart up to 1
LongPos ==
    << -(PosScale \div 4) >>
    \o [k \in 1..(SK_Scalar1 \div SK_ScalarNearlyZero) |-> k * SK_ScalarNearlyZero]
LongInput ==
    [colors |-> [i \in 1..Len(LongPos) |-> PaletteAt(i)], pos |-> LongPos,
     count |-> Len(LongPos)]
RawInputs ==
    UNION { { [colors |-> c, pos |-> p, count |-> Len(p)] : c \in ColorPatterns(Len(p)) } :
            p \in PosInputs }
    \cup
    UNION { { [colors |-> c, pos |-> NoPos, count |-> n] : c \in ColorsNoPos(n) } :
            n \in 2..MaxCount }


\* the gradients that are made again from their own descriptor
RebuildInputs == RawInputs \cup {LongInput}
----------------------------------------------------------------------------
(* ColorStopOptimizer: drops the redundant stop of a 3-stop hard edge *)

\* an optimizer that drops the leftmost stop of {0,0,1} whatever the tiling
ColorStopOptimizerEager(colors, pos, count, mode) ==
    IF /\ pos # NoPos
       /\ count = 3
       /\ SkScalarNearlyEqual(pos[1], 0)
       /\ SkScalarNearlyEqual(pos[2], 0)
       /\ SkScalarNearlyEqual(pos[3], SK_Scalar1)
    THEN [fColors |-> SubSeq(colors, 2, 3), fPos |-> SubSeq(pos, 2, 3), fCount |-> 2]
    ELSE [fColors |-> colors, fPos |-> pos, fCount |-> count]

\* an optimizer that sets the count to 2 and never advances the arrays
ColorStopOptimizerKeepsFirst(colors, pos, count, mode) ==
    IF /\ pos # NoPos
       /\ count = 3
       /\ SkScalarNearlyEqual(pos[1], 0)
       /\ \/ /\ SkScalarNearlyEqual(pos[2], 0)
             /\ SkScalarNearlyEqual(pos[3], SK_Scalar1)
             /\ (mode = kRepeat_TileMode \/ mode = kMirror_TileMode \/ colors[1] = colors[2])
          \/ /\ SkScalarNearlyEqual(pos[2], SK_Scalar1)
             /\ SkScalarNearlyEqual(pos[3], SK_Scalar1)
             /\ (mode = kRepeat_TileMode \/ mode = kMirror_TileMode \/ colors[2] = colors[3])
    THEN [fColors |-> SubSeq(colors, 1, 2), fPos |-> SubSeq(pos, 1, 2), fCount |-> 2]
    ELSE [fColors |-> colors, fPos |-> pos, fCount |-> count]

ColorStopOptimizer(colors, pos, count, mode) ==
    IF pos = NoPos \/ count # 3
    THEN [fColors |-> colors, fPos |-> pos, fCount |-> count]
    ELSE IF /\ SkScalarNearlyEqual(pos[1], 0)
            /\ SkScalarNearlyEqual(pos[2], 0)
            /\ SkScalarNearlyEqual(pos[3], SK_Scalar1)
         THEN IF \/ mode = kRepeat_TileMode
                 \/ mode = kMirror_TileMode
                 \/ colors[1] = colors[2]
              THEN \* ignore the leftmost color/pos
                   [fColors |-> SubSeq(colors, 2, 3), fPos |-> SubSeq(pos, 2, 3), fCount |-> 2]
              ELSE [fColors |-> colors, fPos |-> pos, fCount |-> count]
         ELSE IF /\ SkScalarNearlyEqual(pos[1], 0)
                 /\ SkScalarNearlyEqual(pos[2], SK_Scalar1)
                 /\ SkScalarNearlyEqual(pos[3], SK_Scalar1)
              THEN IF \/ mode = kRepeat_TileMode
                      \/ mode = kMirror_TileMode
                      \/ colors[2] = colors[3]
                   THEN \* ignore the rightmost color/pos: fCount = 2, arrays untouched
                        [fColors |-> SubSeq(colors, 1, 2), fPos |-> SubSeq(pos, 1, 2), fCount |-> 2]
                   ELSE [fColors |-> colors, fPos |-> pos, fCount |-> count]
              ELSE [fColors |-> colors, fPos |-> pos, fCount |-> count]

\* desc_init: the descriptor handed to the gradient's constructor
desc_init(colors, pos, colorCount, mode, flags, localMatrix) ==
    [fColors |-> colors, fPos |-> pos, fCount |-> colorCount,
     fTileMode |-> mode, fGradFlags |-> flags, fLocalMatrix |-> localMatrix]

----------------------------------------------------------------------------
(* SkGradientShaderBase::SkGradientShaderBase *)

\* a first dummy stop for every position array
dummyFirstAlways(d) == d.fPos # NoPos

dummyFirst(d) == d.fPos # NoPos /\ d.fPos[1] # 0
dummyLast(d)  == d.fPos # NoPos /\ d.fPos[d.fCount] # SK_Scalar1

\* fColorCount: the caller's count plus the dummy stops
CtorColorCount(d) == d.fCount + B2I(dummyFirst(d)) + B2I(dummyLast(d))

\* the copy loop alone, without the dummy colors
CtorColorsNoDummies(d) == SubSeq(d.fColors, 1, d.fCount)

\* fOrigColors4f: the caller's colors, bracketed by the dummies as needed
CtorColors(d) ==
    (IF dummyFirst(d) THEN << d.fColors[1] >> ELSE << >>)
    \o SubSeq(d.fColors, 1, d.fCount)
    \o (IF dummyLast(d) THEN << d.fColors[d.fCount] >> ELSE << >>)

\* an opacity flag that is assigned, not accumulated, by the copy loop
CtorOpaqueLast(d) == d.fColors[d.fCount][4] = ColScale

\* fColorsAreOpaque: every caller color has alpha 1
CtorOpaque(d) == \A i \in 1..d.fCount : d.fColors[i][4] = ColScale

\* the pinning without the pin: the caller's value as it is
PinCurrRaw(d, i, prev) ==
    IF i = d.fCount THEN SK_Scalar1 ELSE d.fPos[i + 1]

\* One pass of the pinning loop for source index i (0-based), given the
\* previous emitted position: the last value is pinned to 1.0 and every
\* value is made monotonic.
PinCurr(d, i, prev) ==
    IF i = d.fCount THEN SK_Scalar1 ELSE SkScalarPin(d.fPos[i + 1], prev, SK_Scalar1)

\* a uniformity test that every gap passes
UniformStopAlways(uniformStep, curr, prev) == TRUE

\* a uniformity test that no gap passes
UniformStopNever(uniformStep, curr, prev) == FALSE

\* the uniformity test with exact equality
UniformStopExact(uniformStep, curr, prev) == uniformStep = curr - prev

\* uniformStops &= SkScalarNearlyEqual(uniformStep, curr - prev)
UniformStop(uniformStep, curr, prev) == SkScalarNearlyEqual(uniformStep, curr - prev)

\* The body of the loop for source index i: st = [pos, prev, uniform]
PinStep(d, i, uniformStep, st) ==
    LET curr == PinCurr(d, i, st.prev)
    IN [pos     |-> Append(st.pos, curr),
        prev    |-> curr,
        uniform |-> st.uniform /\ UniformStop(uniformStep, curr, st.prev)]

\* The loop over i in startIndex..count-1, run as its first half followed
\* by its second half; the state after the first half is computed before
\* the second half starts
RECURSIVE PinLoop(_, _, _, _, _)
PinLoop(d, i, count, uniformStep, st) ==
    IF i >= count THEN st
    ELSE IF i + 1 = count THEN PinStep(d, i, uniformStep, st)
    ELSE LET mid   == (i + count) \div 2
             first == PinLoop(d, i, mid, uniformStep, st)
         IN IF first.uniform \in BOOLEAN
            THEN PinLoop(d, mid, count, uniformStep, first)
            ELSE first

\* The positions written by the constructor and its uniformStops verdict
CtorPinned(d) ==
    LET startIndex  == IF dummyFirst(d) THEN 0 ELSE 1
        count       == d.fCount + B2I(dummyLast(d))
        uniformStep == d.fPos[startIndex + 1] - 0
    IN PinLoop(d, startIndex, count, uniformStep,
               [pos |-> << 0 >>, prev |-> 0, uniform |-> TRUE])

\* fOrigPos: null without caller positions or when the stops are uniform
CtorOrigPos(d) ==
    IF d.fPos = NoPos THEN NoPos
    ELSE LET r == CtorPinned(d)
         IN IF r.uniform THEN NoPos ELSE r.pos

\* INHERITED(desc.fLocalMatrix): the matrix given, or the identity for null
ShaderLocalMatrix(d) == IF d.fLocalMatrix = NoMatrix THEN SkMatrixI ELSE d.fLocalMatrix

SkGradientShaderBase(d) ==
    [fLocalMatrix     |-> ShaderLocalMatrix(d),
     fColorSpace      |-> SkColorSpaceSRGB,
     fGradFlags       |-> d.fGradFlags % 256,
     fTileMode        |-> d.fTileMode,
     fColorCount      |-> CtorColorCount(d),
     fOrigColors4f    |-> CtorColors(d),
     fColorsAreOpaque |-> CtorOpaque(d),
     fOrigPos         |-> CtorOrigPos(d)]

\* SkGradientShaderBase::isOpaque
isOpaque(s) == s.fColorsAreOpaque /\ s.fTileMode # kDecal_TileMode

\* getPos(i) for a 0-based stop index i
getPos(s, i) ==
    IF s.fOrigPos # NoPos THEN s.fOrigPos[i + 1]
    ELSE (i * SK_Scalar1) \div (s.fColorCount - 1)

----------------------------------------------------------------------------
(* Serialization.  A uint32 is kept as its two 16-bit halves; the buffer is
   the sequence of the values written, the flags word first. *)

Word(hi, lo) == [hi |-> hi, lo |-> lo]

RECURSIVE BitOr(_, _)
BitOr(a, b) ==
    IF a = 0 THEN b
    ELSE IF b = 0 THEN a
    ELSE 2 * BitOr(a \div 2, b \div 2) + (IF a % 2 = 1 \/ b % 2 = 1 THEN 1 ELSE 0)

RECURSIVE BitAnd(_, _)
BitAnd(a, b) ==
    IF a = 0 \/ b = 0 THEN 0
    ELSE 2 * BitAnd(a \div 2, b \div 2) + (IF a % 2 = 1 /\ b % 2 = 1 THEN 1 ELSE 0)

WordOr(v, w)  == Word(BitOr(v.hi, w.hi), BitOr(v.lo, w.lo))
WordAnd(v, w) == Word(BitAnd(v.hi, w.hi), BitAnd(v.lo, w.lo))
\* v << 4 in 32 bits
WordShl4(v) == Word((v.hi % 4096) * 16 + (v.lo \div 4096), (v.lo % 4096) * 16)
\* v << 8 and v >> 8 in 32 bits
WordShl8(v) == Word((v.hi % 256) * 256 + (v.lo \div 256), (v.lo % 256) * 256)
WordShr8(v) == Word(v.hi \div 256, (v.hi % 256) * 256 + (v.lo \div 256))

\* GradientSerializationFlags
kHasPosition_GSF    == Word(32768, 0)
kHasLocalMatrix_GSF == Word(16384, 0)
kHasColorSpace_GSF  == Word(8192, 0)
kTileModeMask_GSF   == Word(0, 15)
kGradFlagsMask_GSF  == Word(0, 255)

\* SkShader::TileMode as the integer of the enum, and back
TileModeCode(mode) ==
    CASE mode = kClamp_TileMode  -> 0
      [] mode = kRepeat_TileMode -> 1
      [] mode = kMirror_TileMode -> 2
      [] mode = kDecal_TileMode  -> 3
      [] OTHER                   -> kTileModeCount \* a value outside the enum
TileModeOfCode(code) ==
    CASE code = 0 -> kClamp_TileMode
      [] code = 1 -> kRepeat_TileMode
      [] code = 2 -> kMirror_TileMode
      [] code = 3 -> kDecal_TileMode
      [] OTHER    -> "Invalid"

\* SkColorSpace::serialize: the data naming the color space
serialize(colorSpace) == << colorSpace >>

\* writeColor4fArray / writeScalarArray / writeDataAsByteArray: the count,
\* then the elements; writeMatrix: the nine values
writeColor4fArray(colors, count) ==
    << count >> \o [k \in 1..(4 * count) |-> colors[((k - 1) \div 4) + 1][((k - 1) % 4) + 1]]
writeScalarArray(pos, count) == << count >> \o SubSeq(pos, 1, count)
writeDataAsByteArray(data) == << Len(data) >> \o data
writeMatrix(m) == m

\* The flags word of Descriptor::flatten, from what the descriptor holds:
\* tileMode is the integer of fTileMode
FlattenFlags(hasPos, hasLocalMatrix, hasColorSpaceData, tileMode, gradFlags) ==
    LET f0 == Word(0, 0)
        f1 == IF hasPos THEN WordOr(f0, kHasPosition_GSF) ELSE f0
        f2 == IF hasLocalMatrix THEN WordOr(f1, kHasLocalMatrix_GSF) ELSE f1
        f3 == IF hasColorSpaceData THEN WordOr(f2, kHasColorSpace_GSF) ELSE f2
        f4 == WordOr(f3, WordShl8(Word(0, tileMode)))
    IN WordOr(f4, Word(0, gradFlags))

\* Descriptor::flatten
DescriptorFlatten(d) ==
    LET colorSpaceData == IF d.fColorSpace # NoColorSpace THEN serialize(d.fColorSpace)
                          ELSE NoData
        flags == FlattenFlags(d.fPos # NoPos, d.fLocalMatrix # NoMatrix,
                              colorSpaceData # NoData, TileModeCode(d.fTileMode),
                              d.fGradFlags)
    IN << flags >>
       \o writeColor4fArray(d.fColors, d.fCount)
       \o (IF colorSpaceData # NoData THEN writeDataAsByteArray(colorSpaceData) ELSE << >>)
       \o (IF d.fPos # NoPos THEN writeScalarArray(d.fPos, d.fCount) ELSE << >>)
       \o (IF d.fLocalMatrix # NoMatrix THEN writeMatrix(d.fLocalMatrix) ELSE << >>)

\* SkGradientShaderBase::flatten: the descriptor of the gradient as it is
FlattenDescriptor(s) ==
    [fColors      |-> s.fOrigColors4f,
     fColorSpace  |-> s.fColorSpace,
     fPos         |-> s.fOrigPos,
     fCount       |-> s.fColorCount,
     fTileMode    |-> s.fTileMode,
     fGradFlags   |-> s.fGradFlags,
     fLocalMatrix |-> IF isIdentity(s.fLocalMatrix) THEN NoMatrix ELSE s.fLocalMatrix]

flatten(s) == DescriptorFlatten(FlattenDescriptor(s))

\* the tile mode read without the shift
unflattenTileModeNoShift(flags) ==
    TileModeOfCode(WordAnd(flags, kTileModeMask_GSF).lo)

\* (flags >> kTileModeShift_GSF) & kTileModeMask_GSF
unflattenTileBits(flags) == WordAnd(WordShr8(flags), kTileModeMask_GSF).lo

\* fTileMode = (SkShader::TileMode)((flags >> kTileModeShift_GSF) & kTileModeMask_GSF)
unflattenTileMode(flags) == TileModeOfCode(unflattenTileBits(flags))

\* fGradFlags = (flags >> kGradFlagsShift_GSF) & kGradFlagsMask_GSF
unflattenGradFlags(flags) == WordAnd(flags, kGradFlagsMask_GSF).lo

\* readColor4fArray / readScalarArray at cursor c: the count written must
\* be the count asked for and the elements must be there
CanReadArray(buffer, c, count, width) ==
    /\ c <= Len(buffer)
    /\ buffer[c] = count
    /\ c + width * count <= Len(buffer)

\* DescriptorScope::unflatten
unflatten(buffer) ==
    LET flags  == buffer[1]
        fCount == buffer[2]
        okCol  == CanReadArray(buffer, 2, fCount, 4)
        colors == IF okCol
                  THEN [i \in 1..fCount |-> [ch \in 1..4 |-> buffer[2 + 4 * (i - 1) + ch]]]
                  ELSE << >>
        c1     == 3 + 4 * fCount
        hasCS  == WordAnd(flags, kHasColorSpace_GSF) # Word(0, 0)
        cs     == IF okCol /\ hasCS THEN buffer[c1 + 1] ELSE NoColorSpace
        c2     == IF hasCS THEN c1 + 1 + buffer[c1] ELSE c1
        hasPos == WordAnd(flags, kHasPosition_GSF) # Word(0, 0)
        okPos  == okCol /\ (hasPos => CanReadArray(buffer, c2, fCount, 1))
        pos    == IF okPos /\ hasPos THEN SubSeq(buffer, c2 + 1, c2 + fCount) ELSE NoPos
        c3     == IF hasPos THEN c2 + 1 + fCount ELSE c2
        hasM   == WordAnd(flags, kHasLocalMatrix_GSF) # Word(0, 0)
        okM    == okPos /\ (hasM => c3 + 8 <= Len(buffer))
    IN [valid        |-> okM,
        fTileMode    |-> unflattenTileMode(flags),
        fGradFlags   |-> unflattenGradFlags(flags),
        fCount       |-> fCount,
        fColors      |-> colors,
        fColorSpace  |-> cs,
        fPos         |-> pos,
        fLocalMatrix |-> IF okM /\ hasM THEN SubSeq(buffer, c3, c3 + 8) ELSE NoMatrix]

----------------------------------------------------------------------------
(* Color vectors and exact fractions *)

VSub(a, b)   == [i \in 1..4 |-> a[i] - b[i]]
VAdd(a, b)   == [i \in 1..4 |-> a[i] + b[i]]
VScale(a, k) == [i \in 1..4 |-> a[i] * k]
VZero        == <<0, 0, 0, 0>>

\* SkColor4f::premul() / SkPM4f::From4f, both in units of 1/ColScale^2
Premul(c)   == << c[1] * c[4], c[2] * c[4], c[3] * c[4], c[4] * ColScale >>
Unpremul(c) == VScale(c, ColScale)

\* SkColor4fXformer with equal source and destination spaces: the colors
\* themselves
xformedColors(s) == s.fOrigColors4f

premulGrad(s) == (s.fGradFlags % 2) = kInterpolateColorsInPremul_Flag

\* prepareColor that never premultiplies
prepareColorStraight(s, i) == Unpremul(xformedColors(s)[i + 1])

\* prepareColor(i) for a 0-based stop index i
prepareColor(s, i) ==
    IF premulGrad(s) THEN Premul(xformedColors(s)[i + 1])
                     ELSE Unpremul(xformedColors(s)[i + 1])

----------------------------------------------------------------------------
(* Stop contexts of the raster pipeline: F = Fs/den, B = Bs/den *)

Unset == "unset"

\* add_const_color
add_const_color(color) == [Fs |-> VZero, Bs |-> color, den |-> 1]

\* init_stop_evenly with an off-by-one stop index
init_stop_evenly_off(gapCount, stop, c_l, c_r) ==
    LET Fs == VScale(VSub(c_r, c_l), gapCount)
    IN [Fs  |-> VScale(Fs, gapCount),
        Bs  |-> VSub(VScale(c_l, gapCount), VScale(Fs, stop + 1)),
        den |-> gapCount]

\* init_stop_evenly: Fs = (c_r - c_l) * gapCount, Bs = c_l - Fs * (stop / gapCount)
init_stop_evenly(gapCount, stop, c_l, c_r) ==
    LET Fs == VScale(VSub(c_r, c_l), gapCount)
    IN [Fs  |-> VScale(Fs, gapCount),
        Bs  |-> VSub(VScale(c_l, gapCount), VScale(Fs, stop)),
        den |-> gapCount]

\* init_stop_pos with the bias taken at the right position
init_stop_pos_right(t_l, t_r, c_l, c_r) ==
    [Fs  |-> VScale(VSub(c_r, c_l), PosScale),
     Bs  |-> VSub(VScale(c_l, t_r - t_l), VScale(VSub(c_r, c_l), t_r)),
     den |-> t_r - t_l]

\* init_stop_pos: Fs = (c_r - c_l) / (t_r - t_l), Bs = c_l - Fs * t_l
init_stop_pos(t_l, t_r, c_l, c_r) ==
    [Fs  |-> VScale(VSub(c_r, c_l), PosScale),
     Bs  |-> VSub(VScale(c_l, t_r - t_l), VScale(VSub(c_r, c_l), t_l)),
     den |-> t_r - t_l]

\* The two-stop case with stops at 0 and 1: f_and_b = {c_r - c_l, c_l}
TwoStopStage(s) ==
    LET c_l == prepareColor(s, 0)
        c_r == prepareColor(s, 1)
    IN [stage |-> "evenly_spaced_2_stop_gradient",
        f_and_b |-> << VSub(c_r, c_l), c_l >>]

\* the length of each fs and bs array: std::max(fColorCount+1, 8)
ArrayLen(s) == Max(s.fColorCount + 1, 8)

\* Evenly distributed stops: one segment per gap, then the constant last stop
RECURSIVE EvenLoop(_, _, _, _)
EvenLoop(s, i, stopCount, segs) ==
    IF i >= stopCount - 1 THEN segs
    ELSE EvenLoop(s, i + 1, stopCount,
                  Append(segs, init_stop_evenly(stopCount - 1, i,
                                                prepareColor(s, i), prepareColor(s, i + 1))))

EvenlyStage(s) ==
    LET stopCount == s.fColorCount
        segs == EvenLoop(s, 0, stopCount, << >>)
    IN [stage |-> "evenly_spaced_gradient",
        fsLen |-> ArrayLen(s),
        stopCount |-> stopCount,
        segs |-> Append(segs, add_const_color(prepareColor(s, stopCount - 1)))]

\* the positioned loop body without the t_l < t_r test
PosStepNoSkip(st, t_r, c_r) ==
    [segs |-> Append(st.segs, init_stop_pos(st.t_l, t_r, st.c_l, c_r)),
     ts   |-> Append(st.ts, st.t_l),
     t_l  |-> t_r,
     c_l  |-> c_r]

\* the positioned loop body writing its segment at two indices
PosStepTwice(st, t_r, c_r) ==
    IF st.t_l < t_r
    THEN [segs |-> st.segs \o << init_stop_pos(st.t_l, t_r, st.c_l, c_r),
                                 init_stop_pos(st.t_l, t_r, st.c_l, c_r) >>,
          ts   |-> st.ts \o << st.t_l, st.t_l >>,
          t_l  |-> t_r,
          c_l  |-> c_r]
    ELSE [segs |-> st.segs, ts |-> st.ts, t_l |-> t_r, c_l |-> c_r]

\* One pass of the positioned loop: a segment only when t_l < t_r
PosStep(st, t_r, c_r) ==
    IF st.t_l < t_r
    THEN [segs |-> Append(st.segs, init_stop_pos(st.t_l, t_r, st.c_l, c_r)),
          ts   |-> Append(st.ts, st.t_l),
          t_l  |-> t_r,
          c_l  |-> c_r]
    ELSE [segs |-> st.segs, ts |-> st.ts, t_l |-> t_r, c_l |-> c_r]

RECURSIVE PosLoop(_, _, _, _)
PosLoop(s, i, lastStop, st) ==
    IF i >= lastStop THEN st
    ELSE PosLoop(s, i + 1, lastStop,
                 PosStep(st, s.fOrigPos[i + 2], prepareColor(s, i + 1)))

\* firstStop counting the first stop as a dummy whatever its color
firstStopAlways(s) == IF s.fColorCount > 2 THEN 1 ELSE 0

\* firstStop / lastStop: the dummy stops are left to the search
firstStop(s) ==
    IF s.fColorCount > 2
    THEN (IF s.fOrigColors4f[1] # s.fOrigColors4f[2] THEN 0 ELSE 1)
    ELSE 0
lastStop(s) ==
    IF s.fColorCount > 2
    THEN (IF s.fOrigColors4f[s.fColorCount - 1] # s.fOrigColors4f[s.fColorCount]
          THEN s.fColorCount - 1 ELSE s.fColorCount - 2)
    ELSE 1

\* the walk over the stops first..last: the constant first color, a segment
\* per pair with t_l < t_r, the constant last color; ts[0] is never written
PositionedWalk(s, first, last) ==
    LET st0 == [segs |-> << add_const_color(prepareColor(s, first)) >>,
                ts   |-> << Unset >>,
                t_l  |-> s.fOrigPos[first + 1],
                c_l  |-> prepareColor(s, first)]
        st == PosLoop(s, first, last, st0)
    IN [stage |-> "gradient",
        fsLen |-> ArrayLen(s),
        tsLen |-> s.fColorCount + 1,
        stopCount |-> Len(st.segs) + 1,
        segs |-> Append(st.segs, add_const_color(st.c_l)),
        ts   |-> Append(st.ts, st.t_l)]

\* Arbitrary stops: the walk from firstStop to lastStop
PositionedStage(s) == PositionedWalk(s, firstStop(s), lastStop(s))

\* The tiling stages appended before the gradient stage
TileStages(s) ==
    CASE s.fTileMode = kMirror_TileMode -> << "mirror_x_1" >>
      [] s.fTileMode = kRepeat_TileMode -> << "repeat_x_1" >>
      [] s.fTileMode = kDecal_TileMode ->
            << "decal_x" >> \o (IF s.fOrigPos = NoPos THEN << "clamp_x_1" >> ELSE << >>)
      [] s.fTileMode = kClamp_TileMode ->
            (IF s.fOrigPos = NoPos THEN << "clamp_x_1" >> ELSE << >>)

\* SkGradientShaderBase::onAppendStages
onAppendStages(s) ==
    [kind  |-> "stages",
     tile  |-> TileStages(s),
     ctx   |-> IF s.fColorCount = 2 /\ s.fOrigPos = NoPos THEN TwoStopStage(s)
               ELSE IF s.fOrigPos = NoPos THEN EvenlyStage(s)
               ELSE PositionedStage(s),
     after |-> (IF s.fTileMode = kDecal_TileMode THEN << "check_decal_mask" >> ELSE << >>)
               \o (IF ~premulGrad(s) /\ ~s.fColorsAreOpaque THEN << "premul" >> ELSE << >>)]

\* The premul stage on a color v in units of 1/u: r, g and b times alpha,
\* in units of 1/u^2
premul_stage(v, u) == << v[1] * v[4], v[2] * v[4], v[3] * v[4], v[4] * u >>

\* The color leaving the stages appended after the gradient stage, for a
\* coordinate the decal mask keeps: [v, u] with v in units of 1/u
RECURSIVE RunAfter(_, _, _)
RunAfter(after, v, u) ==
    IF after = << >> THEN [v |-> v, u |-> u]
    ELSE IF Head(after) = "premul"
         THEN RunAfter(Tail(after), premul_stage(v, u), u * u)
         ELSE RunAfter(Tail(after), v, u)

----------------------------------------------------------------------------
(* SkGradientShaderBase::initLinearBitmap *)

kGradientTextureSize == 256

kRGBA_8888_SkColorType == "RGBA_8888"
kRGBA_F16_SkColorType  == "RGBA_F16"
ColorTypes == {kRGBA_8888_SkColorType, kRGBA_F16_SkColorType}

\* a texel allocPixels has not initialized
Unwritten == << -1, -1, -1, -1 >>

\* Levels of one stored channel: bytes for 8888, a 10-bit mantissa for F16
Levels(colorType) == IF colorType = kRGBA_F16_SkColorType THEN 1024 ELSE 255

\* round(levels * num / den) for num >= 0, den > 0
Quantize(num, den, levels) == (2 * levels * num + den) \div (2 * den)

\* writeSizedPixel of the color c / den (units of 1/ColScale^2)
writeSizedPixel(c, den, colorType) ==
    [ch \in 1..4 |-> Quantize(c[ch], den * ColScale * ColScale, Levels(colorType))]

\* writeUnpremulPixel: c * (a, a, a, 1), then writeSizedPixel
writeUnpremulPixel(c, den, colorType) ==
    writeSizedPixel(<< c[1] * c[4], c[2] * c[4], c[3] * c[4],
                       c[4] * den * ColScale * ColScale >>,
                    den * den * ColScale * ColScale, colorType)

writePixel(s, c, den, colorType) ==
    IF premulGrad(s) THEN writeSizedPixel(c, den, colorType)
                     ELSE writeUnpremulPixel(c, den, colorType)

\* the texel index without the nudge of 256 to 255
TexelIndexUnclamped(s, i) == (getPos(s, i) * kGradientTextureSize) \div SK_Scalar1

\* stops are mapped to [0, 256], with 256 nudged to 255, then truncated
TexelIndex(s, i) ==
    Min((getPos(s, i) * kGradientTextureSize) \div SK_Scalar1, kGradientTextureSize - 1)

\* the stop colors loaded without the premultiplication
BitmapColorStraight(s, colors, i) == Unpremul(colors[i + 1])

\* c0 and c1 of the pair (i-1, i), premultiplied first when interpolating
\* in premul; both in units of 1/ColScale^2
BitmapColor(s, colors, i) ==
    IF premulGrad(s) THEN Premul(colors[i + 1]) ELSE Unpremul(colors[i + 1])

\* The inner loop over curIndex = prevIndex .. nextIndex for the pair
\* (i-1, i): texel curIndex is written c0 + (curIndex - prevIndex) * delta
\* with delta = (c1 - c0) / (nextIndex - prevIndex)
SpanPixel(s, colors, sp, curIndex, colorType) ==
    LET c0 == BitmapColor(s, colors, sp.i - 1)
        c1 == BitmapColor(s, colors, sp.i)
        n  == sp.nextIndex - sp.prevIndex
    IN writePixel(s, VAdd(VScale(c0, n), VScale(VSub(c1, c0), curIndex - sp.prevIndex)),
                  n, colorType)

\* One pass of the outer loop: the inner loop runs only when the texel
\* index advances
BitmapStep(st, i, nextIndex) ==
    [prevIndex |-> nextIndex,
     spans |-> IF nextIndex > st.prevIndex
               THEN Append(st.spans,
                           [i |-> i, prevIndex |-> st.prevIndex, nextIndex |-> nextIndex])
               ELSE st.spans]

\* The outer loop over the stops i = 1 .. fColorCount - 1
RECURSIVE BitmapLoop(_, _, _)
BitmapLoop(s, i, st) ==
    IF i >= s.fColorCount THEN st
    ELSE BitmapLoop(s, i + 1, BitmapStep(st, i, TexelIndex(s, i)))

\* initLinearBitmap: the spans written, in order, and the final prevIndex
initLinearBitmap(s, colors, colorType) ==
    LET st == BitmapLoop(s, 1, [prevIndex |-> 0, spans |-> << >>])
    IN [kind |-> "table", colorType |-> colorType, colors |-> colors,
        spans |-> st.spans, prevIndex |-> st.prevIndex]

\* The content of texel k once initLinearBitmap has returned: what the last
\* span covering k wrote there
Texel(s, b, k) ==
    LET cover == { j \in 1..Len(b.spans) :
                     b.spans[j].prevIndex <= k /\ k <= b.spans[j].nextIndex }
    IN IF cover = {} THEN Unwritten
       ELSE LET j == CHOOSE x \in cover : \A y \in cover : y <= x
            IN SpanPixel(s, b.colors, b.spans[j], k, b.colorType)

\* The 256 texels of the bitmap once initLinearBitmap has returned
Contents(s, b) == [k \in 1..kGradientTextureSize |-> Texel(s, b, k - 1)]

----------------------------------------------------------------------------
(* SkGradientShaderBase::getGradientTableBitmap: the cache key *)

\* static_cast<int32_t>(colorType)
ColorTypeCode(colorType) == IF colorType = kRGBA_F16_SkColorType THEN 1 ELSE 0

\* SkFloat2Bits: the bits of the float; one pattern for each value
SkFloat2Bits(x) == x

\* memcpy of the colors: four int32 per color
ColorsAsInts(colors, n) ==
    [k \in 1..(4 * n) |-> colors[((k - 1) \div 4) + 1][((k - 1) % 4) + 1]]

\* a key without the gradient flags
TableKeyWithoutFlags(s, colors, colorType) ==
    LET n == s.fColorCount
        count == 1 + 4 * n + 1 + (IF n > 2 THEN n - 1 ELSE 0)
    IN [storage |-> << n >> \o ColorsAsInts(colors, n)
                    \o (IF n > 2 THEN [i \in 1..(n - 1) |-> SkFloat2Bits(getPos(s, i))]
                                 ELSE << >>)
                    \o << ColorTypeCode(colorType) >>,
        count |-> count,
        size  |-> count * 4]

\* a key that also records the tile mode
TableKeyWithTileMode(s, colors, colorType) ==
    LET n == s.fColorCount
        count == 1 + 4 * n + 1 + 1 + 1 + (IF n > 2 THEN n - 1 ELSE 0)
    IN [storage |-> << n >> \o ColorsAsInts(colors, n)
                    \o (IF n > 2 THEN [i \in 1..(n - 1) |-> SkFloat2Bits(getPos(s, i))]
                                 ELSE << >>)
                    \o << s.fGradFlags, ColorTypeCode(colorType), s.fTileMode >>,
        count |-> count,
        size  |-> count * 4]

\* The key: [numColors + colors[] + {positions[]} + flags + colorType],
\* count int32 words and size bytes
TableKey(s, colors, colorType) ==
    LET n == s.fColorCount
        colorsAsIntCount == 4 * n
        count == 1 + colorsAsIntCount + 1 + 1 + (IF n > 2 THEN n - 1 ELSE 0)
    IN [storage |-> << n >> \o ColorsAsInts(colors, n)
                    \o (IF n > 2 THEN [i \in 1..(n - 1) |-> SkFloat2Bits(getPos(s, i))]
                                 ELSE << >>)
                    \o << s.fGradFlags, ColorTypeCode(colorType) >>,
        count |-> count,
        size  |-> count * 4]

----------------------------------------------------------------------------
(* GrGradientEffect: the analytic intervals of the GPU path *)

kBeforeInterp_PremulType == "BeforeInterp"
kAfterInterp_PremulType  == "AfterInterp"
WrapModes == {"Clamp", "Repeat", "MirrorRepeat"}

PremulType(s) ==
    IF premulGrad(s) THEN kBeforeInterp_PremulType ELSE kAfterInterp_PremulType

\* an addInterval that stores the scale and not the bias
addIntervalScaleOnly(s, colors, idx0, idx1) ==
    LET c0 == Unpremul(colors[idx0 + 1])
        c1 == Unpremul(colors[idx1 + 1])
    IN << [v |-> VSub(c1, c0), den |-> 1, dt |-> getPos(s, idx1) - getPos(s, idx0)] >>

\* addInterval: the (scale, bias) pair of stops idx0, idx1; scale is 0 when
\* dt is nearly zero, (c1 - c0) / dt otherwise, and bias = c0 - t0 * scale
addInterval(s, colors, idx0, idx1) ==
    LET c0 == IF PremulType(s) = kBeforeInterp_PremulType
              THEN Premul(colors[idx0 + 1]) ELSE Unpremul(colors[idx0 + 1])
        c1 == IF PremulType(s) = kBeforeInterp_PremulType
              THEN Premul(colors[idx1 + 1]) ELSE Unpremul(colors[idx1 + 1])
        t0 == getPos(s, idx0)
        dt == getPos(s, idx1) - t0
    IN IF SkScalarNearlyZero(dt)
       THEN << [v |-> VZero, den |-> 1, dt |-> dt],
               [v |-> c0, den |-> 1, dt |-> dt] >>
       ELSE << [v |-> VScale(VSub(c1, c0), PosScale), den |-> dt, dt |-> dt],
               [v |-> VSub(VScale(c0, dt), VScale(VSub(c1, c0), t0)), den |-> dt, dt |-> dt] >>

\* The strategy switch of the constructor
GrGradientEffect(s, wrapMode) ==
    LET colors == xformedColors(s)
        texture == [kind |-> "effect", fStrategy |-> "kTexture", fThreshold |-> 0,
                    fIntervals |-> << >>, fWrapMode |-> wrapMode,
                    fPremulType |-> PremulType(s)]
    IN CASE s.fColorCount = 2 ->
              [texture EXCEPT !.fStrategy = "kSingle",
                              !.fIntervals = addInterval(s, colors, 0, 1)]
         [] s.fColorCount = 3 ->
              IF s.fOrigPos # NoPos /\ SkScalarNearlyEqual(s.fOrigPos[2], 0)
              THEN \* hard stop on the left edge
                   IF wrapMode = "Clamp"
                   THEN [texture EXCEPT !.fStrategy = "kThresholdClamp1",
                                        !.fThreshold = getPos(s, 1),
                                        !.fIntervals = addInterval(s, colors, 0, 0)
                                                       \o addInterval(s, colors, 1, 2)]
                   ELSE [texture EXCEPT !.fStrategy = "kSingle",
                                        !.fThreshold = getPos(s, 1),
                                        !.fIntervals = addInterval(s, colors, 1, 2)]
              ELSE IF s.fOrigPos # NoPos /\ SkScalarNearlyEqual(s.fOrigPos[2], SK_Scalar1)
              THEN \* hard stop on the right edge
                   IF wrapMode = "Clamp"
                   THEN [texture EXCEPT !.fStrategy = "kThresholdClamp0",
                                        !.fThreshold = getPos(s, 1),
                                        !.fIntervals = addInterval(s, colors, 0, 1)
                                                       \o addInterval(s, colors, 2, 2)]
                   ELSE [texture EXCEPT !.fStrategy = "kSingle",
                                        !.fThreshold = getPos(s, 1),
                                        !.fIntervals = addInterval(s, colors, 0, 1)]
              ELSE \* two arbitrary interpolation intervals
                   [texture EXCEPT !.fStrategy = "kThreshold",
                                   !.fThreshold = getPos(s, 1),
                                   !.fIntervals = addInterval(s, colors, 0, 1)
                                                  \o addInterval(s, colors, 1, 2)]
         [] s.fColorCount = 4 ->
              IF s.fOrigPos # NoPos /\ SkScalarNearlyEqual(s.fOrigPos[2], s.fOrigPos[3])
              THEN \* single hard stop
                   [texture EXCEPT !.fStrategy = "kThreshold",
                                   !.fThreshold = getPos(s, 1),
                                   !.fIntervals = addInterval(s, colors, 0, 1)
                                                  \o addInterval(s, colors, 2, 3)]
              ELSE texture
         [] OTHER -> texture

----------------------------------------------------------------------------
(* The factories.  A result is what the factory returns: nullptr, a color
   shader, the empty shader, or a gradient made from a descriptor. *)

\* a null colors pointer
NoColors == << >>

\* SkScalar arguments that may be infinite or NaN
Finite(v)  == [finite |-> TRUE, v |-> v]
NonFinite  == [finite |-> FALSE, v |-> 0]
SkScalarIsFinite(x) == x.finite

\* SkMatrix::invert(nullptr): whether the matrix is invertible
invert(m) == m[1] * m[5] - m[2] * m[4] # 0
SingularMatrix == << 0, 0, 0,  0, 0, 0,  0, 0, 1 >>

\* valid_grad
valid_grad(colors, pos, count, tileMode) ==
    colors # NoColors /\ count >= 1 /\ TileModeCode(tileMode) < kTileModeCount

ReturnNull  == [result |-> "nullptr", desc |-> None]
ReturnEmpty == [result |-> "SkEmptyShader", desc |-> None]
\* SkShader::MakeColorShader(colors[0], colorSpace)
MakeColorShader(color) == [result |-> "SkColorShader", desc |-> None]

\* The common end of the factories: optimizer, descriptor, gradient
MakeFromDesc(type, colors, pos, colorCount, mode, flags, localMatrix) ==
    LET opt == ColorStopOptimizer(colors, pos, colorCount, mode)
    IN [result |-> type,
        desc   |-> desc_init(opt.fColors, opt.fPos, opt.fCount, mode, flags, localMatrix)]

\* SkGradientShader::MakeLinear; pts is "null", "finite" or "infinite"
MakeLinear(pts, colors, pos, colorCount, mode, flags, localMatrix) ==
    IF pts = "null" \/ pts # "finite" THEN ReturnNull
    ELSE IF ~valid_grad(colors, pos, colorCount, mode) THEN ReturnNull
    ELSE IF 1 = colorCount THEN MakeColorShader(colors[1])
    ELSE IF localMatrix # NoMatrix /\ ~invert(localMatrix) THEN ReturnNull
    ELSE MakeFromDesc("SkLinearGradient", colors, pos, colorCount, mode, flags, localMatrix)

\* SkGradientShader::MakeRadial
MakeRadial(radius, colors, pos, colorCount, mode, flags, localMatrix) ==
    IF radius <= 0 THEN ReturnNull
    ELSE IF ~valid_grad(colors, pos, colorCount, mode) THEN ReturnNull
    ELSE IF 1 = colorCount THEN MakeColorShader(colors[1])
    ELSE IF localMatrix # NoMatrix /\ ~invert(localMatrix) THEN ReturnNull
    ELSE MakeFromDesc("SkRadialGradient", colors, pos, colorCount, mode, flags, localMatrix)

\* EXPAND_1_COLOR
EXPAND_1_COLOR(colors, pos, count) ==
    IF 1 = count THEN [colors |-> << colors[1], colors[1] >>, pos |-> NoPos, count |-> 2]
    ELSE [colors |-> colors, pos |-> pos, count |-> count]

\* SkGradientShader::MakeTwoPointConical; dist is the length of start - end
MakeTwoPointConical(dist, startRadius, endRadius, colors, pos, colorCount, mode, flags, localMatrix) ==
    IF startRadius < 0 \/ endRadius < 0 THEN ReturnNull
    ELSE IF SkScalarNearlyZero(dist) /\ SkScalarNearlyZero(startRadius)
    THEN \* treated as radial
         MakeRadial(endRadius, colors, pos, colorCount, mode, flags, localMatrix)
    ELSE IF ~valid_grad(colors, pos, colorCount, mode) THEN ReturnNull
    ELSE IF startRadius = endRadius /\ (dist = 0 \/ startRadius = 0) THEN ReturnEmpty
    ELSE IF localMatrix # NoMatrix /\ ~invert(localMatrix) THEN ReturnNull
    ELSE LET e == EXPAND_1_COLOR(colors, pos, colorCount)
         IN MakeFromDesc("SkTwoPointConicalGradient", e.colors, e.pos, e.count, mode, flags,
                         localMatrix)

\* SkGradientShader::MakeSweep
MakeSweep(colors, pos, colorCount, mode, startAngle, endAngle, flags, localMatrix) ==
    IF ~valid_grad(colors, pos, colorCount, mode) THEN ReturnNull
    ELSE IF 1 = colorCount THEN MakeColorShader(colors[1])
    ELSE IF \/ ~SkScalarIsFinite(startAngle)
            \/ ~SkScalarIsFinite(endAngle)
            \/ startAngle.v >= endAngle.v
    THEN ReturnNull
    ELSE IF localMatrix # NoMatrix /\ ~invert(localMatrix) THEN ReturnNull
    ELSE MakeFromDesc("SkSweepGradient", colors, pos, colorCount,
                      \* the t-range includes [0,1]: always clamp
                      IF startAngle.v <= 0 /\ endAngle.v >= 360 THEN kClamp_TileMode ELSE mode,
                      flags, localMatrix)

\* What the callers pass
FactoryModes    == TileModes \cup {"Invalid"}
FactoryMatrices == {NoMatrix, ScaleMatrix, SingularMatrix}
FactoryCounts   == {-1, 0, 1, 2, 3}
Radii     == { -SK_Scalar1, 0, 300, SK_Scalar1 }
Distances == { 0, 300, SK_Scalar1 }
Angles    == { Finite(0), Finite(90), Finite(360), NonFinite }
Points    == { "null", "finite", "infinite" }

\* the arrays the callers hold: count may be smaller than the arrays
FactoryInputs ==
    { [colors |-> c, pos |-> p, count |-> n] :
        c \in { NoColors, << Red, Green, Blue >>, << Smoke, Smoke, Blue >> },
        p \in { NoPos, << 0, 0, SK_Scalar1 >>, << 0, SK_Scalar1 \div 2, SK_Scalar1 >> },
        n \in FactoryCounts }

\* the first count entries of an array
Given(a, count) == IF a = << >> \/ count < 1 THEN a ELSE SubSeq(a, 1, count)

----------------------------------------------------------------------------
(* The gradient's life: the caller's arrays, the factory with the
   constructor, then one of the consumers *)

InitGrad ==
    /\ raw \in RawInputs
    /\ desc = None
    /\ shader = None
    /\ phase = "raw"
    /\ out = None

\* SkGradientShader::MakeLinear and its siblings, past the argument checks
MakeGradient(mode, flags, localMatrix) ==
    /\ phase = "raw"
    /\ LET opt == ColorStopOptimizer(raw.colors, raw.pos, raw.count, mode)
           d   == desc_init(opt.fColors, opt.fPos, opt.fCount, mode, flags, localMatrix)
       IN /\ desc' = d
          /\ shader' = SkGradientShaderBase(d)
    /\ phase' = "built"
    /\ UNCHANGED <<raw, out>>
    /\ UNCHANGED cacheVars

AppendStages ==
    /\ phase = "built"
    /\ out' = onAppendStages(shader)
    /\ phase' = "done"
    /\ UNCHANGED <<raw, desc, shader>>
    /\ UNCHANGED cacheVars

InitLinearBitmap(colorType) ==
    /\ phase = "built"
    /\ out' = initLinearBitmap(shader, xformedColors(shader), colorType)
    /\ phase' = "done"
    /\ UNCHANGED <<raw, desc, shader>>
    /\ UNCHANGED cacheVars

\* the gradient a factory constructs from its descriptor, if it makes one
Constructed(r) == IF r.desc = None THEN None ELSE SkGradientShaderBase(r.desc)

CallMakeLinear(pts, mode, localMatrix) ==
    /\ phase = "call"
    /\ LET r == MakeLinear(pts, Given(raw.colors, raw.count), Given(raw.pos, raw.count),
                           raw.count, mode, 0, localMatrix)
       IN /\ out' = [kind |-> "result", result |-> r.result,
                     args |-> [factory |-> "MakeLinear", pts |-> pts, mode |-> mode,
                               localMatrix |-> localMatrix]]
          /\ desc' = r.desc
          /\ shader' = Constructed(r)
    /\ phase' = "returned"
    /\ UNCHANGED raw
    /\ UNCHANGED cacheVars

CallMakeRadial(radius, mode, localMatrix) ==
    /\ phase = "call"
    /\ LET r == MakeRadial(radius, Given(raw.colors, raw.count), Given(raw.pos, raw.count),
                           raw.count, mode, 0, localMatrix)
       IN /\ out' = [kind |-> "result", result |-> r.result,
                     args |-> [factory |-> "MakeRadial", radius |-> radius, mode |-> mode,
                               localMatrix |-> localMatrix]]
          /\ desc' = r.desc
          /\ shader' = Constructed(r)
    /\ phase' = "returned"
    /\ UNCHANGED raw
    /\ UNCHANGED cacheVars

CallMakeTwoPointConical(dist, startRadius, endRadius, mode, localMatrix) ==
    /\ phase = "call"
    /\ LET r == MakeTwoPointConical(dist, startRadius, endRadius,
                                    Given(raw.colors, raw.count), Given(raw.pos, raw.count),
                                    raw.count, mode, 0, localMatrix)
       IN /\ out' = [kind |-> "result", result |-> r.result,
                     args |-> [factory |-> "MakeTwoPointConical", dist |-> dist,
                               startRadius |-> startRadius, endRadius |-> endRadius,
                               mode |-> mode, localMatrix |-> localMatrix]]
          /\ desc' = r.desc
          /\ shader' = Constructed(r)
    /\ phase' = "returned"
    /\ UNCHANGED raw
    /\ UNCHANGED cacheVars

CallMakeSweep(startAngle, endAngle, mode, localMatrix) ==
    /\ phase = "call"
    /\ LET r == MakeSweep(Given(raw.colors, raw.count), Given(raw.pos, raw.count),
                          raw.count, mode, startAngle, endAngle, 0, localMatrix)
       IN /\ out' = [kind |-> "result", result |-> r.result,
                     args |-> [factory |-> "MakeSweep", startAngle |-> startAngle,
                               endAngle |-> endAngle, mode |-> mode,
                               localMatrix |-> localMatrix]]
          /\ desc' = r.desc
          /\ shader' = Constructed(r)
    /\ phase' = "returned"
    /\ UNCHANGED raw
    /\ UNCHANGED cacheVars

\* the flags word is written for a descriptor with the fields of raw
WriteFlags ==
    /\ phase = "fields"
    /\ out' = [kind |-> "word",
               flags |-> FlattenFlags(raw.hasPos, raw.hasLocalMatrix,
                                      raw.hasColorSpaceData, raw.tileMode,
                                      raw.gradFlags)]
    /\ phase' = "word"
    /\ UNCHANGED <<raw, desc, shader>>
    /\ UNCHANGED cacheVars

\* unflatten reads the flags word
ReadFlags ==
    /\ phase = "word"
    /\ out' = [kind |-> "read",
               flags |-> out.flags,
               fTileMode |-> unflattenTileBits(out.flags),
               fGradFlags |-> unflattenGradFlags(out.flags),
               hasPos |-> WordAnd(out.flags, kHasPosition_GSF) # Word(0, 0),
               hasLocalMatrix |-> WordAnd(out.flags, kHasLocalMatrix_GSF) # Word(0, 0),
               hasColorSpaceData |-> WordAnd(out.flags, kHasColorSpace_GSF) # Word(0, 0)]
    /\ phase' = "read"
    /\ UNCHANGED <<raw, desc, shader>>
    /\ UNCHANGED cacheVars

\* isOpaque() is asked
IsOpaque ==
    /\ phase = "built"
    /\ out' = [kind |-> "opaque", value |-> isOpaque(shader)]
    /\ phase' = "done"
    /\ UNCHANGED <<raw, desc, shader>>
    /\ UNCHANGED cacheVars

\* the gradient is written to a buffer
Flatten ==
    /\ phase = "built"
    /\ out' = [kind |-> "buffer", buffer |-> flatten(shader)]
    /\ phase' = "flat"
    /\ UNCHANGED <<raw, desc, shader>>
    /\ UNCHANGED cacheVars

\* the buffer is read back into a descriptor
Unflatten ==
    /\ phase = "flat"
    /\ out' = [kind |-> "descriptor", buffer |-> out.buffer, desc |-> unflatten(out.buffer)]
    /\ phase' = "done"
    /\ UNCHANGED <<raw, desc, shader>>
    /\ UNCHANGED cacheVars

\* the constructor runs on the descriptor flatten makes of the gradient
Reconstruct ==
    /\ phase = "built"
    /\ out' = [kind |-> "rebuilt", desc |-> FlattenDescriptor(shader),
               shader |-> SkGradientShaderBase(FlattenDescriptor(shader))]
    /\ phase' = "done"
    /\ UNCHANGED <<raw, desc, shader>>
    /\ UNCHANGED cacheVars

\* getGradientTableBitmap up to the key, for the colors of the gradient
BuildTableKey(colorType) ==
    /\ phase = "built"
    /\ out' = [kind |-> "key", colorType |-> colorType,
               key |-> TableKey(shader, xformedColors(shader), colorType)]
    /\ phase' = "done"
    /\ UNCHANGED <<raw, desc, shader>>
    /\ UNCHANGED cacheVars

MakeEffect(wrapMode) ==
    /\ phase = "built"
    /\ out' = GrGradientEffect(shader, wrapMode)
    /\ phase' = "done"
    /\ UNCHANGED <<raw, desc, shader>>
    /\ UNCHANGED cacheVars

----------------------------------------------------------------------------
(* The table cache *)

MAX_NUM_CACHED_GRADIENT_BITMAPS == 32

Threads == 1..NumThreads
KeyUniverse == 1..Max(NumKeys, SweepKeys)

\* The threads that call: all of them, or one when it sweeps through keys
Callers == IF sweep THEN {1} ELSE Threads

\* The keys a caller may build: any of a few, or, sweeping, the first key
\* again or the next key not yet used
KeyChoices ==
    IF sweep THEN {1, Min(maxKey + 1, SweepKeys)} ELSE 1..NumKeys

NoCache == [null |-> TRUE]

\* new SkGradientBitmapCache(max): empty, most recently used entry first
NewCache(max) == [fMaxEntries |-> max, entries |-> << >>]

CacheIndex(c, k) ==
    IF \E i \in 1..Len(c.entries) : c.entries[i].key = k
    THEN CHOOSE i \in 1..Len(c.entries) : c.entries[i].key = k
    ELSE 0

SeqRemove(q, i) == SubSeq(q, 1, i - 1) \o SubSeq(q, i + 1, Len(q))

\* SkGradientBitmapCache::find: on a hit the entry moves to the head
CacheFind(c, k) ==
    LET i == CacheIndex(c, k)
    IN IF i = 0 THEN [hit |-> FALSE, id |-> 0, cache |-> c]
       ELSE [hit |-> TRUE, id |-> c.entries[i].id,
             cache |-> [c EXCEPT !.entries = << c.entries[i] >> \o SeqRemove(c.entries, i)]]

\* SkGradientBitmapCache::add: at capacity the tail entry is dropped first
CacheAdd(c, k, id) ==
    LET full == Len(c.entries) = c.fMaxEntries
        kept == IF full THEN SubSeq(c.entries, 1, Len(c.entries) - 1) ELSE c.entries
    IN [cache   |-> [c EXCEPT !.entries = << [key |-> k, id |-> id] >> \o kept],
        evicted |-> IF full THEN c.entries[Len(c.entries)].key ELSE 0]

InitCache ==
    /\ sweep \in BOOLEAN
    /\ pc = [t \in Threads |-> "idle"]
    /\ key = [t \in Threads |-> 0]
    /\ mutex = 0
    /\ gCache = NoCache
    /\ bitmap = [t \in Threads |-> 0]
    /\ pixels = << >>
    /\ didInit = [t \in Threads |-> FALSE]
    /\ returned = [k \in KeyUniverse |-> [id |-> 0, ev |-> 0]]
    /\ evictions = [k \in KeyUniverse |-> 0]
    /\ maxKey = 0

\* getGradientTableBitmap is entered and the key is built
Call(t, k) ==
    /\ pc[t] = "idle"
    /\ t \in Callers
    /\ k \in KeyChoices
    /\ key' = [key EXCEPT ![t] = k]
    /\ bitmap' = [bitmap EXCEPT ![t] = 0]
    /\ didInit' = [didInit EXCEPT ![t] = FALSE]
    /\ maxKey' = Max(maxKey, k)
    /\ pc' = [pc EXCEPT ![t] = "lock"]
    /\ UNCHANGED <<sweep, mutex, gCache, pixels, returned, evictions>>
    /\ UNCHANGED gradVars

\* an acquire that does not wait for the mutex
AcquireNoWait(t) ==
    /\ pc[t] = "lock"
    /\ mutex' = t
    /\ pc' = [pc EXCEPT ![t] = "create"]
    /\ UNCHANGED <<sweep, key, gCache, bitmap, pixels, didInit, returned, evictions, maxKey>>
    /\ UNCHANGED gradVars

\* SkAutoMutexAcquire ama(gGradientCacheMutex)
Acquire(t) ==
    /\ pc[t] = "lock"
    /\ mutex = 0
    /\ mutex' = t
    /\ pc' = [pc EXCEPT ![t] = "create"]
    /\ UNCHANGED <<sweep, key, gCache, bitmap, pixels, didInit, returned, evictions, maxKey>>
    /\ UNCHANGED gradVars

\* a cache made anew by every call
CreateCacheAlways(t) ==
    /\ pc[t] = "create"
    /\ gCache' = NewCache(MAX_NUM_CACHED_GRADIENT_BITMAPS)
    /\ pc' = [pc EXCEPT ![t] = "find"]
    /\ UNCHANGED <<sweep, key, mutex, bitmap, pixels, didInit, returned, evictions, maxKey>>
    /\ UNCHANGED gradVars

\* if (nullptr == gCache) gCache = new SkGradientBitmapCache(...)
CreateCache(t) ==
    /\ pc[t] = "create"
    /\ gCache' = IF gCache = NoCache THEN NewCache(MAX_NUM_CACHED_GRADIENT_BITMAPS)
                 ELSE gCache
    /\ pc' = [pc EXCEPT ![t] = "find"]
    /\ UNCHANGED <<sweep, key, mutex, bitmap, pixels, didInit, returned, evictions, maxKey>>
    /\ UNCHANGED gradVars

\* a lookup whose result is ignored: every call builds
FindAlwaysBuild(t) ==
    /\ pc[t] = "find"
    /\ pc' = [pc EXCEPT ![t] = "alloc"]
    /\ UNCHANGED <<sweep, key, mutex, gCache, bitmap, pixels, didInit, returned, evictions, maxKey>>
    /\ UNCHANGED gradVars

\* gCache->find(...): a hit fills the caller's bitmap, a miss goes on to build
Find(t) ==
    /\ pc[t] = "find"
    /\ LET r == CacheFind(gCache, key[t])
       IN /\ gCache' = r.cache
          /\ bitmap' = [bitmap EXCEPT ![t] = r.id]
          /\ pc' = [pc EXCEPT ![t] = IF r.hit THEN "unlock" ELSE "alloc"]
    /\ UNCHANGED <<sweep, key, mutex, pixels, didInit, returned, evictions, maxKey>>
    /\ UNCHANGED gradVars

\* bitmap->allocPixels(info): fresh pixel storage, nothing written
AllocPixels(t) ==
    /\ pc[t] = "alloc"
    /\ pixels' = Append(pixels, [texels |-> 0, immutable |-> FALSE, key |-> key[t]])
    /\ bitmap' = [bitmap EXCEPT ![t] = Len(pixels) + 1]
    /\ pc' = [pc EXCEPT ![t] = "init"]
    /\ UNCHANGED <<sweep, key, mutex, gCache, didInit, returned, evictions, maxKey>>
    /\ UNCHANGED gradVars

\* initLinearBitmap is entered and writes the first texels
InitBegin(t) ==
    /\ pc[t] = "init"
    /\ pixels' = [pixels EXCEPT ![bitmap[t]].texels = kGradientTextureSize \div 2]
    /\ didInit' = [didInit EXCEPT ![t] = TRUE]
    /\ pc' = [pc EXCEPT ![t] = "init2"]
    /\ UNCHANGED <<sweep, key, mutex, gCache, bitmap, returned, evictions, maxKey>>
    /\ UNCHANGED gradVars

\* initLinearBitmap writes the remaining texels and returns
InitEnd(t) ==
    /\ pc[t] = "init2"
    /\ pixels' = [pixels EXCEPT ![bitmap[t]].texels = kGradientTextureSize]
    /\ pc' = [pc EXCEPT ![t] = "immutable"]
    /\ UNCHANGED <<sweep, key, mutex, gCache, bitmap, didInit, returned, evictions, maxKey>>
    /\ UNCHANGED gradVars

\* the build without setImmutable
SkipImmutable(t) ==
    /\ pc[t] = "immutable"
    /\ pc' = [pc EXCEPT ![t] = "add"]
    /\ UNCHANGED <<sweep, key, mutex, gCache, bitmap, pixels, didInit, returned, evictions, maxKey>>
    /\ UNCHANGED gradVars

\* bitmap->setImmutable()
SetImmutable(t) ==
    /\ pc[t] = "immutable"
    /\ pixels' = [pixels EXCEPT ![bitmap[t]].immutable = TRUE]
    /\ pc' = [pc EXCEPT ![t] = "add"]
    /\ UNCHANGED <<sweep, key, mutex, gCache, bitmap, didInit, returned, evictions, maxKey>>
    /\ UNCHANGED gradVars

\* gCache->add(...)
Add(t) ==
    /\ pc[t] = "add"
    /\ LET r == CacheAdd(gCache, key[t], bitmap[t])
       IN /\ gCache' = r.cache
          /\ evictions' = IF r.evicted = 0 THEN evictions
                          ELSE [evictions EXCEPT ![r.evicted] = @ + 1]
    /\ pc' = [pc EXCEPT ![t] = "unlock"]
    /\ UNCHANGED <<sweep, key, mutex, bitmap, pixels, didInit, returned, maxKey>>
    /\ UNCHANGED gradVars

\* a return that leaves the mutex held
ReleaseKeepsMutex(t) ==
    /\ pc[t] = "unlock"
    /\ returned' = [returned EXCEPT ![key[t]] = [id |-> bitmap[t], ev |-> evictions[key[t]]]]
    /\ pc' = [pc EXCEPT ![t] = "idle"]
    /\ UNCHANGED <<sweep, key, mutex, gCache, bitmap, pixels, didInit, evictions, maxKey>>
    /\ UNCHANGED gradVars

\* the function returns: ama's destructor releases the mutex
Release(t) ==
    /\ pc[t] = "unlock"
    /\ mutex' = 0
    /\ returned' = [returned EXCEPT ![key[t]] = [id |-> bitmap[t], ev |-> evictions[key[t]]]]
    /\ pc' = [pc EXCEPT ![t] = "idle"]
    /\ UNCHANGED <<sweep, key, gCache, bitmap, pixels, didInit, evictions, maxKey>>
    /\ UNCHANGED gradVars

\* a gradient is made that will ask for its table
TableRequest(r, mode, flags) ==
    /\ phase \in {"none", "returned"}
    /\ Len(pixels) < MaxTables
    /\ raw' = r
    /\ LET opt == ColorStopOptimizer(r.colors, r.pos, r.count, mode)
           d   == desc_init(opt.fColors, opt.fPos, opt.fCount, mode, flags, NoMatrix)
       IN /\ desc' = d
          /\ shader' = SkGradientShaderBase(d)
    /\ phase' = "request"
    /\ UNCHANGED out
    /\ UNCHANGED cacheVars

\* getGradientTableBitmap from entry to return, under the mutex: the key is
\* built, the cache is created if there is none, and the table is found or
\* else allocated, initialized, made immutable and added
GetGradientTableBitmap(colorType) ==
    /\ phase = "request"
    /\ LET colors == xformedColors(shader)
           k      == TableKey(shader, colors, colorType)
           cache  == IF gCache = NoCache THEN NewCache(MAX_NUM_CACHED_GRADIENT_BITMAPS)
                     ELSE gCache
           f      == CacheFind(cache, k)
           id     == Len(pixels) + 1
       IN IF f.hit
          THEN /\ gCache' = f.cache
               /\ pixels' = pixels
               /\ out' = [kind |-> "bitmap", hit |-> TRUE, id |-> f.id,
                          colorType |-> colorType]
          ELSE /\ pixels' = Append(pixels,
                                   [texels |-> kGradientTextureSize, immutable |-> TRUE,
                                    key |-> k,
                                    contents |-> Contents(shader,
                                                     initLinearBitmap(shader, colors,
                                                                      colorType))])
               /\ gCache' = CacheAdd(f.cache, k, id).cache
               /\ out' = [kind |-> "bitmap", hit |-> FALSE, id |-> id,
                          colorType |-> colorType]
    /\ phase' = "returned"
    /\ UNCHANGED <<raw, desc, shader>>
    /\ UNCHANGED <<sweep, pc, key, mutex, bitmap, didInit, returned, evictions, maxKey>>

----------------------------------------------------------------------------
(* Specifications *)

\* the cache is idle while one gradient is followed
CacheIdle ==
    /\ sweep = FALSE
    /\ pc = [t \in Threads |-> "idle"]
    /\ key = [t \in Threads |-> 0]
    /\ mutex = 0
    /\ gCache = NoCache
    /\ bitmap = [t \in Threads |-> 0]
    /\ pixels = << >>
    /\ didInit = [t \in Threads |-> FALSE]
    /\ returned = [k \in KeyUniverse |-> [id |-> 0, ev |-> 0]]
    /\ evictions = [k \in KeyUniverse |-> 0]
    /\ maxKey = 0

\* no gradient is followed while the cache is exercised
GradIdle ==
    /\ raw = None
    /\ desc = None
    /\ shader = None
    /\ phase = "none"
    /\ out = None

Init == InitGrad /\ CacheIdle

Next ==
    \/ \E mode \in TileModes, flags \in GradFlags, localMatrix \in LocalMatrices :
          MakeGradient(mode, flags, localMatrix)
    \/ AppendStages
    \/ \E colorType \in ColorTypes : InitLinearBitmap(colorType)
    \/ \E wrapMode \in WrapModes : MakeEffect(wrapMode)
    \/ \E colorType \in ColorTypes : BuildTableKey(colorType)
    \/ Flatten
    \/ Unflatten
    \/ IsOpaque

Spec == Init /\ [][Next]_vars

CacheInit == InitCache /\ GradIdle

CacheNext ==
    \E t \in Threads :
        \/ \E k \in KeyUniverse : Call(t, k)
        \/ Acquire(t)
        \/ CreateCache(t)
        \/ Find(t)
        \/ AllocPixels(t)
        \/ InitBegin(t)
        \/ InitEnd(t)
        \/ SetImmutable(t)
        \/ Add(t)
        \/ Release(t)

CacheSpec == CacheInit /\ [][CacheNext]_vars

\* A fair lock and fair scheduling: a caller that waits for the mutex gets
\* it if it is free again and again, and a caller inside the function keeps
\* running; nobody is obliged to call
CacheFairness ==
    \A t \in Threads :
        /\ SF_vars(Acquire(t))
        /\ WF_vars(CreateCache(t))
        /\ WF_vars(Find(t))
        /\ WF_vars(AllocPixels(t))
        /\ WF_vars(InitBegin(t))
        /\ WF_vars(InitEnd(t))
        /\ WF_vars(SetImmutable(t))
        /\ WF_vars(Add(t))
        /\ WF_vars(Release(t))

CacheLiveSpec == CacheInit /\ [][CacheNext]_vars /\ CacheFairness

\* the factories are called with arguments of every kind
FactoryInit ==
    /\ raw \in FactoryInputs
    /\ desc = None
    /\ shader = None
    /\ phase = "call"
    /\ out = None
    /\ CacheIdle

FactoryNext ==
    \/ \E pts \in Points, mode \in FactoryModes, m \in FactoryMatrices :
          CallMakeLinear(pts, mode, m)
    \/ \E radius \in Radii, mode \in FactoryModes, m \in FactoryMatrices :
          CallMakeRadial(radius, mode, m)
    \/ \E dist \in Distances, r0 \in Radii, r1 \in Radii, mode \in FactoryModes,
          m \in FactoryMatrices :
          CallMakeTwoPointConical(dist, r0, r1, mode, m)
    \/ \E a0 \in Angles, a1 \in Angles, mode \in FactoryModes, m \in FactoryMatrices :
          CallMakeSweep(a0, a1, mode, m)

FactorySpec == FactoryInit /\ [][FactoryNext]_vars

\* gradients ask the cache for their tables one after another
TableInit == GradIdle /\ CacheIdle

TableNext ==
    \/ \E r \in TableInputs, mode \in TableModes, flags \in GradFlags :
          TableRequest(r, mode, flags)
    \/ \E colorType \in ColorTypes : GetGradientTableBitmap(colorType)

TableSpec == TableInit /\ [][TableNext]_vars

\* gradients are made, and made again from the descriptor flatten makes
RebuildInit ==
    /\ raw \in RebuildInputs
    /\ desc = None
    /\ shader = None
    /\ phase = "raw"
    /\ out = None
    /\ CacheIdle

RebuildNext ==
    \/ \E mode \in TileModes, flags \in GradFlags : MakeGradient(mode, flags, NoMatrix)
    \/ Reconstruct

RebuildSpec == RebuildInit /\ [][RebuildNext]_vars

\* every content of the fields the flags word packs
FlagFields ==
    [hasPos : BOOLEAN, hasLocalMatrix : BOOLEAN, hasColorSpaceData : BOOLEAN,
     tileMode : 0..kTileModeMask_GSF.lo, gradFlags : 0..kGradFlagsMask_GSF.lo]

FlagsInit ==
    /\ raw \in FlagFields
    /\ desc = None
    /\ shader = None
    /\ phase = "fields"
    /\ out = None
    /\ CacheIdle

FlagsNext == WriteFlags \/ ReadFlags

FlagsSpec == FlagsInit /\ [][FlagsNext]_vars

----------------------------------------------------------------------------
(* Evaluation of the evenly spaced stages at t = tn / td in [0, 1]; a value
   is the fraction num / den per channel *)

RatEq(x, y) == \A ch \in 1..4 : x.num[ch] * y.den = y.num[ch] * x.den

\* evenly_spaced_2_stop_gradient: color = F * t + B
Eval2Stop(c, tn, td) ==
    [num |-> VAdd(VScale(c.f_and_b[1], tn), VScale(c.f_and_b[2], td)), den |-> td]

\* evenly_spaced_gradient: the stop is trunc(t * (stopCount - 1)), and
\* color = F[stop] * t + B[stop]
EvalEvenly(c, tn, td) ==
    LET idx == (tn * (c.stopCount - 1)) \div td
        seg == c.segs[idx + 1]
    IN [num |-> VAdd(VScale(seg.Fs, tn), VScale(seg.Bs, td)), den |-> seg.den * td]

----------------------------------------------------------------------------
(* Claims about the constructor *)

Built == phase # "raw" /\ phase # "none"

\* C1: for every descriptor with a position array, the positions the
\* constructor writes have one entry per canonical stop, start at exactly 0,
\* end at exactly 1 and never decrease; a kept array is that array.
C1_Bracketing ==
    (Built /\ desc.fPos # NoPos) =>
        LET p == CtorPinned(desc).pos
        IN /\ Len(p) = shader.fColorCount
           /\ p[1] = 0
           /\ p[Len(p)] = SK_Scalar1
           /\ \A i \in 1..(Len(p) - 1) : p[i] <= p[i + 1]
           /\ shader.fOrigPos # NoPos => shader.fOrigPos = p

\* a descriptor with a negative, a too large and an out-of-order position
\* has been constructed and keeps its positions
C1_Witness ==
    /\ Built
    /\ desc.fPos # NoPos
    /\ shader.fOrigPos # NoPos
    /\ \E i \in 1..desc.fCount : desc.fPos[i] < 0
    /\ \E i \in 1..desc.fCount : desc.fPos[i] > SK_Scalar1
    /\ \E i \in 1..(desc.fCount - 1) : desc.fPos[i] > desc.fPos[i + 1]

\* C5: with positions the canonical count is count + (pos[0] != 0) +
\* (pos[count-1] != 1), a synthetic first stop copies the first color, a
\* synthetic last stop the last color, and the caller's colors lie between
\* them in order; {A,B} at {0.3,0.7} becomes {A,A,B,B} at {0,0.3,0.7,1};
\* without positions count and colors are unchanged.
C5_DummyStops ==
    Built =>
        LET n     == desc.fCount
            first == IF desc.fPos # NoPos /\ desc.fPos[1] # 0 THEN 1 ELSE 0
            last  == IF desc.fPos # NoPos /\ desc.fPos[n] # SK_Scalar1 THEN 1 ELSE 0
            cs    == shader.fOrigColors4f
        IN /\ shader.fColorCount = n + first + last
           /\ Len(cs) = shader.fColorCount
           /\ \A i \in 1..n : cs[first + i] = desc.fColors[i]
           /\ first = 1 => cs[1] = desc.fColors[1]
           /\ last = 1 => cs[Len(cs)] = desc.fColors[n]
           /\ desc.fPos = NoPos => (shader.fColorCount = n /\ cs = desc.fColors)
           /\ desc.fPos = << (3 * PosScale) \div 10, (7 * PosScale) \div 10 >> =>
                /\ cs = << desc.fColors[1], desc.fColors[1], desc.fColors[2], desc.fColors[2] >>
                /\ shader.fOrigPos = << 0, (3 * PosScale) \div 10, (7 * PosScale) \div 10, PosScale >>

\* two different colors at {0.3, 0.7} have been constructed
C5_Witness ==
    /\ Built
    /\ desc.fPos = << (3 * PosScale) \div 10, (7 * PosScale) \div 10 >>
    /\ desc.fColors[1] # desc.fColors[2]
    /\ shader.fColorCount = 4

\* the pinned positions are uniformly spaced: every gap is nearly equal to
\* the first gap
PinnedUniform(p) ==
    \A i \in 1..(Len(p) - 1) :
        Abs((p[i + 1] - p[i]) - (p[2] - p[1])) <= SK_ScalarNearlyZero

Quarters    == << 0, PosScale \div 4, PosScale \div 2, (3 * PosScale) \div 4, PosScale >>
QuartersOff == << 0, (PosScale \div 4) - (PosScale \div 100), PosScale \div 2,
                  (3 * PosScale) \div 4, PosScale >>

C8_ClampReduces ==
    (Built /\ raw.count = 3 /\ raw.pos = << 0, 0, SK_Scalar1 >>
           /\ desc.fTileMode = kClamp_TileMode) =>
        (desc.fCount = 2 /\ desc.fColors = << raw.colors[2], raw.colors[3] >>)

\* C8 amended: positions {0,0,1} with colors {R,G,B} reach the constructor
\* as the two stops {G,B} at {0,1} exactly when the tiling is Repeat or
\* Mirror or R equals G; otherwise (Clamp or Decal with R different from G)
\* all three stops are kept.
C8_HardEdgeOptimizer ==
    (Built /\ raw.count = 3 /\ raw.pos = << 0, 0, SK_Scalar1 >>) =>
        IF \/ desc.fTileMode \in {kRepeat_TileMode, kMirror_TileMode}
           \/ raw.colors[1] = raw.colors[2]
        THEN /\ desc.fCount = 2
             /\ desc.fColors = << raw.colors[2], raw.colors[3] >>
             /\ desc.fPos = << 0, SK_Scalar1 >>
        ELSE /\ desc.fCount = 3
             /\ desc.fColors = raw.colors
             /\ desc.fPos = raw.pos

\* {R,G,B} at {0,0,1} under Clamp tiling went through the factory and kept
\* its three stops
C8_Witness ==
    /\ Built
    /\ raw.count = 3
    /\ raw.pos = << 0, 0, SK_Scalar1 >>
    /\ raw.colors = << Red, Green, Blue >>
    /\ desc.fTileMode = kClamp_TileMode
    /\ desc.fCount = 3

\* every stop of the constructed gradient has alpha exactly 1
AllStopsOpaque == \A i \in 1..shader.fColorCount : shader.fOrigColors4f[i][4] = ColScale

\* C15: the constructor's opacity summary is true exactly when every stop
\* of the gradient, the synthetic boundary stops included, has alpha
\* exactly 1, which is exactly when every caller color has; isOpaque()
\* answers true exactly when the summary is true and the tile mode is not
\* Decal.
C15_Opacity ==
    /\ Built =>
          /\ shader.fColorsAreOpaque <=> AllStopsOpaque
          /\ shader.fColorsAreOpaque <=>
                \A i \in 1..desc.fCount : desc.fColors[i][4] = ColScale
    /\ (phase = "done" /\ out.kind = "opaque") =>
          (out.value <=> (AllStopsOpaque /\ shader.fTileMode # kDecal_TileMode))

\* isOpaque() was asked of a gradient with a synthetic first stop whose
\* first color is translucent and whose last color is opaque
C15_Witness ==
    /\ phase = "done"
    /\ out.kind = "opaque"
    /\ shader.fColorCount > desc.fCount
    /\ desc.fPos[1] # 0
    /\ desc.fColors[1][4] < ColScale
    /\ desc.fColors[desc.fCount][4] = ColScale
    /\ ~out.value

\* the constructor was given positions and discarded them
Discarded == Built /\ desc.fPos # NoPos /\ shader.fOrigPos = NoPos

\* the pinned positions are exactly i/(n-1)
ExactlyUniform(p) == \A i \in 1..Len(p) : p[i] * (Len(p) - 1) = (i - 1) * SK_Scalar1

\* C13 as stated: when the constructor discards the positions, the implicit
\* position of every stop is the pinned position that was discarded.
C13_DiscardChangesNothing ==
    Discarded =>
        \A i \in 0..(shader.fColorCount - 1) :
            getPos(shader, i) = CtorPinned(desc).pos[i + 1]

\* C13 amended: when the constructor discards the positions, the implicit
\* position of every stop is less than (n-1) times the tolerance away from
\* the pinned position that was discarded, the first and the last are
\* the same, and when the pinned positions are exactly i/(n-1) every
\* implicit position is the same and the table builder writes the same
\* spans of texels from either.
C13_DiscardWithinTolerance ==
    Discarded =>
        LET p    == CtorPinned(desc).pos
            n    == shader.fColorCount
            kept == [shader EXCEPT !.fOrigPos = p]
        IN /\ Len(p) = n
           /\ \A i \in 0..(n - 1) :
                 Abs(getPos(shader, i) - p[i + 1]) < (n - 1) * SK_ScalarNearlyZero
           /\ getPos(shader, 0) = p[1]
           /\ getPos(shader, n - 1) = p[n]
           /\ ExactlyUniform(p) =>
                 /\ \A i \in 0..(n - 1) : getPos(shader, i) = p[i + 1]
                 /\ initLinearBitmap(kept, xformedColors(kept), kRGBA_8888_SkColorType).spans
                      = initLinearBitmap(shader, xformedColors(shader),
                                         kRGBA_8888_SkColorType).spans

\* positions were discarded whose fourth stop lies further than the
\* tolerance from its implicit position
C13_Witness ==
    /\ Discarded
    /\ shader.fColorCount = 5
    /\ Abs(getPos(shader, 3) - CtorPinned(desc).pos[4]) > SK_ScalarNearlyZero

\* a position within the tolerance of a value
Near(x, v) == Abs(x - v) <= SK_ScalarNearlyZero

\* C17: the factory's optimizer changes its input only when positions are
\* given, the count is 3, the positions are nearly {0,0,1} or {0,1,1}, and
\* the tile mode is Repeat or Mirror or the two colors at the doubled
\* position are equal; it then passes on 2 stops, the last two colors and
\* positions for {0,0,1} and the first two for {0,1,1}; in every other
\* case colors, positions and count pass through unchanged.
C17_OptimizerExact ==
    Built =>
        LET three   == raw.pos # NoPos /\ raw.count = 3
            near001 == three /\ Near(raw.pos[1], 0) /\ Near(raw.pos[2], 0)
                             /\ Near(raw.pos[3], SK_Scalar1)
            near011 == three /\ Near(raw.pos[1], 0) /\ Near(raw.pos[2], SK_Scalar1)
                             /\ Near(raw.pos[3], SK_Scalar1)
            wraps   == desc.fTileMode \in {kRepeat_TileMode, kMirror_TileMode}
        IN /\ (near001 /\ (wraps \/ raw.colors[1] = raw.colors[2])) =>
                 /\ desc.fCount = 2
                 /\ desc.fColors = << raw.colors[2], raw.colors[3] >>
                 /\ desc.fPos = << raw.pos[2], raw.pos[3] >>
           /\ (near011 /\ (wraps \/ raw.colors[2] = raw.colors[3])) =>
                 /\ desc.fCount = 2
                 /\ desc.fColors = << raw.colors[1], raw.colors[2] >>
                 /\ desc.fPos = << raw.pos[1], raw.pos[2] >>
           /\ ~(\/ near001 /\ (wraps \/ raw.colors[1] = raw.colors[2])
                \/ near011 /\ (wraps \/ raw.colors[2] = raw.colors[3])) =>
                 /\ desc.fCount = raw.count
                 /\ desc.fColors = raw.colors
                 /\ desc.fPos = raw.pos

\* three differently colored stops at nearly {0,0,1}, the second not
\* exactly at 0, went through the factory under Mirror tiling
C17_Witness ==
    /\ Built
    /\ raw.count = 3
    /\ raw.pos = << 0, 300, SK_Scalar1 >>
    /\ raw.colors[1] # raw.colors[2]
    /\ raw.colors[2] # raw.colors[3]
    /\ desc.fTileMode = kMirror_TileMode
    /\ desc.fCount = 2

\* C25: a gradient whose color count is exactly 2 has no position array
\* after construction, whatever positions the caller gave; so the effect of
\* a 2-color gradient is built with no positions (its assertion holds) and
\* the positioned stage is only ever built for more than 2 colors (the
\* branch with firstStop = 0, lastStop = 1 is not taken).
C25_TwoColorsNoPositions ==
    /\ (Built /\ shader.fColorCount = 2) => shader.fOrigPos = NoPos
    /\ (phase = "done" /\ out.kind = "effect" /\ shader.fColorCount = 2) =>
          /\ shader.fOrigPos = NoPos
          /\ out.fStrategy = "kSingle"
    /\ (phase = "done" /\ out.kind = "stages" /\ out.ctx.stage = "gradient") =>
          /\ shader.fOrigPos # NoPos
          /\ shader.fColorCount > 2

\* the two-stop stage was built for a 2-color gradient whose caller gave
\* positions
C25_Witness ==
    /\ phase = "done"
    /\ out.kind = "stages"
    /\ shader.fColorCount = 2
    /\ raw.pos # NoPos
    /\ desc.fPos # NoPos
    /\ out.ctx.stage = "evenly_spaced_2_stop_gradient"

----------------------------------------------------------------------------
(* Claims about the lookup table *)

IsTable == phase = "done" /\ out.kind = "table"

\* The texel a stop's color is stored as: premultiplied, in the table's
\* encoding
StoredColor(c, colorType) == writeSizedPixel(Premul(c), 1, colorType)

\* min(floor(position * 256), 255) of the 0-based stop i
StopTexel(i) ==
    LET pos == IF shader.fOrigPos # NoPos THEN shader.fOrigPos[i + 1]
               ELSE (i * PosScale) \div (shader.fColorCount - 1)
        idx == (pos * 256) \div PosScale
    IN IF idx > 255 THEN 255 ELSE idx

PrevIndexAt(i) == IF i = 1 THEN 0 ELSE TexelIndex(shader, i - 1)
\* the stops whose texel index advances
AdvancingStops ==
    { i \in 1..(shader.fColorCount - 1) : TexelIndex(shader, i) > PrevIndexAt(i) }

\* C23: the stops map to the texel indices min(floor(position * 256), 255),
\* which never decrease; the loop writes a span for exactly the stops whose
\* index advances, from the previous index to the stop's index, in stop
\* order; every index written is in 0..255, each of the 256 texels is
\* written, and the loop ends with prevIndex = 255.
C23_TableLoop ==
    IsTable =>
        LET n == shader.fColorCount
        IN /\ \A i \in 1..(n - 1) :
                 /\ TexelIndex(shader, i) = StopTexel(i)
                 /\ TexelIndex(shader, i) >= PrevIndexAt(i)
           /\ Len(out.spans) = Cardinality(AdvancingStops)
           /\ \A j \in 1..Len(out.spans) :
                 LET sp == out.spans[j]
                 IN /\ sp.i \in AdvancingStops
                    /\ sp.prevIndex = PrevIndexAt(sp.i)
                    /\ sp.nextIndex = TexelIndex(shader, sp.i)
                    /\ 0 <= sp.prevIndex /\ sp.prevIndex < sp.nextIndex
                    /\ sp.nextIndex <= kGradientTextureSize - 1
                    /\ j > 1 => out.spans[j - 1].i < sp.i
           /\ \A k \in 0..(kGradientTextureSize - 1) :
                 \E j \in 1..Len(out.spans) :
                     out.spans[j].prevIndex <= k /\ k <= out.spans[j].nextIndex
           /\ out.prevIndex = kGradientTextureSize - 1

\* a table was built in several spans for a gradient one of whose stops
\* does not advance the texel index and is skipped
C23_Witness ==
    /\ IsTable
    /\ Len(out.spans) >= 2
    /\ Len(out.spans) < shader.fColorCount - 1
    /\ \E i \in 2..(shader.fColorCount - 2) : i \notin AdvancingStops

----------------------------------------------------------------------------
(* Claims about the analytic segments *)

IsStages == phase = "done" /\ out.kind = "stages"
IsEffect == phase = "done" /\ out.kind = "effect"

\* the stop pairs the positioned path walks, as 0-based left indices
WalkedPairs == firstStop(shader)..(lastStop(shader) - 1)

\* scale * t + bias of a segment, times the segment's denominator, at the
\* position t given in units of 1/PosScale
SegmentAt(seg, t) ==
    [ch \in 1..4 |-> (seg.Fs[ch] \div PosScale) * t + seg.Bs[ch]]

\* scale * (k / g) + bias of a segment, times g and the segment's denominator
SegmentAtFraction(seg, k, g) ==
    [ch \in 1..4 |-> seg.Fs[ch] * k + seg.Bs[ch] * g]

\* the walked stop pairs with t_l < t_r, and the number of them up to pair i
EmittingPairs ==
    { i \in WalkedPairs : shader.fOrigPos[i + 1] < shader.fOrigPos[i + 2] }
EmittedUpTo(i) == Cardinality({ k \in EmittingPairs : k <= i })

IsConstant(seg, color) == seg.Fs = VZero /\ seg.Bs = color /\ seg.den = 1

\* C18: on the evenly spaced path segment i takes the color of stop i at
\* i/(n-1) and of stop i+1 at (i+1)/(n-1); on the positioned path the
\* segment emitted for a stop pair with t_l < t_r takes the color of the
\* left stop at t_l, which is its entry in ts, and of the right stop at t_r;
\* on both paths the last segment is constant with the final color, and on
\* the positioned path so is the first with the first color and the last
\* starts at the position of the last stop walked.
C18_SegmentsInterpolate ==
    /\ (IsStages /\ out.ctx.stage = "evenly_spaced_gradient") =>
          LET n == shader.fColorCount
              g == n - 1
          IN /\ Len(out.ctx.segs) = n
             /\ \A i \in 0..(n - 2) :
                   LET seg == out.ctx.segs[i + 1]
                   IN /\ SegmentAtFraction(seg, i, g)
                         = VScale(prepareColor(shader, i), seg.den * g)
                      /\ SegmentAtFraction(seg, i + 1, g)
                         = VScale(prepareColor(shader, i + 1), seg.den * g)
             /\ IsConstant(out.ctx.segs[n], prepareColor(shader, n - 1))
    /\ (IsStages /\ out.ctx.stage = "gradient") =>
          LET n == shader.fColorCount
              m == Len(out.ctx.segs)
          IN /\ m = Cardinality(EmittingPairs) + 2
             /\ \A i \in EmittingPairs :
                   LET j   == 1 + EmittedUpTo(i)
                       seg == out.ctx.segs[j]
                       t_l == shader.fOrigPos[i + 1]
                       t_r == shader.fOrigPos[i + 2]
                   IN /\ \A ch \in 1..4 : seg.Fs[ch] % PosScale = 0
                      /\ out.ctx.ts[j] = t_l
                      /\ SegmentAt(seg, t_l) = VScale(prepareColor(shader, i), seg.den)
                      /\ SegmentAt(seg, t_r) = VScale(prepareColor(shader, i + 1), seg.den)
             /\ IsConstant(out.ctx.segs[1], prepareColor(shader, 0))
             /\ IsConstant(out.ctx.segs[m], prepareColor(shader, n - 1))
             /\ out.ctx.ts[m] = shader.fOrigPos[lastStop(shader) + 1]

\* the positioned path has emitted segments for a gradient with a hard
\* stop, differently colored neighbours and a translucent stop
C18_Witness ==
    /\ IsStages
    /\ out.ctx.stage = "gradient"
    /\ Cardinality(EmittingPairs) >= 2
    /\ Cardinality(EmittingPairs) < Cardinality(WalkedPairs)
    /\ \E i \in EmittingPairs :
          /\ shader.fOrigColors4f[i + 1] # shader.fOrigColors4f[i + 2]
          /\ shader.fOrigColors4f[i + 1][4] < ColScale

\* C19: with n colors the general paths emit at most n+1 segments: the
\* final stopCount is the number of segments written and at most n+1, the
\* segments fill indices below the length max(n+1, 8) of the fs and bs
\* arrays, and on the positioned path the ts entries fill indices below
\* the length n+1 of ts; the evenly spaced path writes exactly n.
C19_SegmentBound ==
    (IsStages /\ out.ctx.stage \in {"evenly_spaced_gradient", "gradient"}) =>
        LET n == shader.fColorCount
        IN /\ out.ctx.stopCount = Len(out.ctx.segs)
           /\ out.ctx.stopCount <= n + 1
           /\ out.ctx.fsLen = (IF n + 1 > 8 THEN n + 1 ELSE 8)
           /\ \A j \in 1..Len(out.ctx.segs) : j - 1 < out.ctx.fsLen
           /\ out.ctx.stage = "evenly_spaced_gradient" => out.ctx.stopCount = n
           /\ out.ctx.stage = "gradient" =>
                 /\ out.ctx.tsLen = n + 1
                 /\ Len(out.ctx.ts) = out.ctx.stopCount
                 /\ \A j \in 1..Len(out.ctx.ts) : j - 1 < out.ctx.tsLen

\* the positioned path has emitted n+1 segments: every stop pair has
\* t_l < t_r and no boundary stop repeats its neighbour's color
C19_Witness ==
    /\ IsStages
    /\ out.ctx.stage = "gradient"
    /\ shader.fColorCount >= 3
    /\ out.ctx.stopCount = shader.fColorCount + 1

\* The gradient stage at the coordinate t: the search counts the entries
\* ts[1..stopCount-1] that t has reached, the stop before them standing at
\* minus infinity, and the color is fs[idx] * t + bs[idx]; a constant
\* segment gives its color, any other the fraction num / den
gradient(c, t) ==
    LET idx == Cardinality({ j \in 2..c.stopCount : t >= c.ts[j] })
        seg == c.segs[idx + 1]
    IN IF seg.Fs = VZero /\ \A ch \in 1..4 : seg.Bs[ch] % seg.den = 0
       THEN [num |-> [ch \in 1..4 |-> seg.Bs[ch] \div seg.den], den |-> 1]
       ELSE [num |-> SegmentAt(seg, t), den |-> seg.den]

\* coordinates at, next to and between the stops, and far outside [0, 1]
SampleCoordinates ==
    LET pos == shader.fOrigPos
    IN UNION { { pos[i] - 1, pos[i], pos[i] + 1 } : i \in 1..Len(pos) }
       \cup { (pos[i] + pos[i + 1]) \div 2 : i \in 1..(Len(pos) - 1) }
       \cup { -SK_Scalar1, -(SK_Scalar1 \div 3), SK_Scalar1 + (SK_Scalar1 \div 3), 2 * SK_Scalar1 }

\* C28: leaving out the first stop when the first two colors are equal and
\* the last stop when the last two are equal changes nothing: at every
\* coordinate the segments the positioned path emits give the color the
\* segments of the walk over all n stops give.
C28_TrimmingKeepsFunction ==
    (IsStages /\ out.ctx.stage = "gradient") =>
        LET all == PositionedWalk(shader, 0, shader.fColorCount - 1)
        IN \A t \in SampleCoordinates : gradient(out.ctx, t) = gradient(all, t)

\* the positioned path left out both end stops of a gradient whose inner
\* stops differ in color and position
C28_Witness ==
    /\ IsStages
    /\ out.ctx.stage = "gradient"
    /\ shader.fColorCount >= 4
    /\ firstStop(shader) = 1
    /\ lastStop(shader) = shader.fColorCount - 2
    /\ shader.fOrigPos[2] > 0
    /\ shader.fOrigPos[shader.fColorCount - 1] < SK_Scalar1
    /\ out.ctx.stopCount < PositionedWalk(shader, 0, shader.fColorCount - 1).stopCount
    /\ \E i \in WalkedPairs : shader.fOrigColors4f[i + 1] # shader.fOrigColors4f[i + 2]

\* the colors the gradient stage gives at its stops: stop index i, value v
\* in units of 1/(ColScale^2 * k)
StopSamples ==
    CASE out.ctx.stage = "evenly_spaced_2_stop_gradient" ->
            { [i |-> 0, v |-> out.ctx.f_and_b[2], k |-> 1],
              [i |-> 1, v |-> VAdd(out.ctx.f_and_b[1], out.ctx.f_and_b[2]), k |-> 1] }
      [] out.ctx.stage = "evenly_spaced_gradient" ->
            LET n == shader.fColorCount
                g == n - 1
            IN { [i |-> j, v |-> SegmentAtFraction(out.ctx.segs[j + 1], j, g),
                  k |-> out.ctx.segs[j + 1].den * g] : j \in 0..(n - 2) }
               \cup
               { [i |-> j + 1, v |-> SegmentAtFraction(out.ctx.segs[j + 1], j + 1, g),
                  k |-> out.ctx.segs[j + 1].den * g] : j \in 0..(n - 2) }
               \cup
               { [i |-> n - 1, v |-> out.ctx.segs[n].Bs, k |-> out.ctx.segs[n].den] }
      [] out.ctx.stage = "gradient" ->
            LET m == Len(out.ctx.segs)
            IN { [i |-> j, v |-> SegmentAt(out.ctx.segs[1 + EmittedUpTo(j)],
                                           shader.fOrigPos[j + 1]),
                  k |-> out.ctx.segs[1 + EmittedUpTo(j)].den] : j \in EmittingPairs }
               \cup
               { [i |-> j + 1, v |-> SegmentAt(out.ctx.segs[1 + EmittedUpTo(j)],
                                               shader.fOrigPos[j + 2]),
                  k |-> out.ctx.segs[1 + EmittedUpTo(j)].den] : j \in EmittingPairs }
               \cup
               { [i |-> 0, v |-> out.ctx.segs[1].Bs, k |-> out.ctx.segs[1].den],
                 [i |-> shader.fColorCount - 1, v |-> out.ctx.segs[m].Bs,
                  k |-> out.ctx.segs[m].den] }

HasPremulStage == \E j \in 1..Len(out.after) : out.after[j] = "premul"
InterpolatesInPremul == shader.fGradFlags % 2 = 1

\* C20: the color leaving the appended stages at every stop is the
\* premultiplied stop color. With the premul-interpolation flag set the
\* gradient stage itself gives the premultiplied stop color and no premul
\* stage follows it; with the flag clear the gradient stage gives the
\* unpremultiplied stop color and a premul stage follows it exactly when
\* some stop is not opaque.
C20_OutputPremultiplied ==
    IsStages =>
        /\ InterpolatesInPremul => ~HasPremulStage
        /\ ~InterpolatesInPremul => (HasPremulStage <=> ~AllStopsOpaque)
        /\ \A j \in 1..Len(out.after) :
              out.after[j] = "premul" =>
                 \A l \in 1..Len(out.after) : out.after[l] = "premul" => l = j
        /\ \A smp \in StopSamples :
              LET c    == shader.fOrigColors4f[smp.i + 1]
                  u    == ColScale * ColScale
                  left == RunAfter(out.after, [ch \in 1..4 |-> smp.v[ch] \div smp.k], u)
              IN /\ smp.k > 0
                 /\ smp.v = VScale(IF InterpolatesInPremul THEN Premul(c)
                                                          ELSE Unpremul(c), smp.k)
                 /\ VScale(left.v, ColScale * ColScale)
                    = VScale(Premul(c), left.u)

\* stages appended for a gradient with a translucent stop that interpolates
\* unpremultiplied colors: the premul stage follows the gradient stage
C20_Witness ==
    /\ IsStages
    /\ ~InterpolatesInPremul
    /\ ~AllStopsOpaque
    /\ HasPremulStage
    /\ out.ctx.stage = "gradient"
    /\ \E smp \in StopSamples :
          /\ shader.fOrigColors4f[smp.i + 1][4] \notin {0, ColScale}
          /\ \E ch \in 1..3 : shader.fOrigColors4f[smp.i + 1][ch] # 0

\* C9: no segment coefficient is computed by dividing by a zero width: the
\* positioned CPU path emits one init_stop_pos segment per walked stop pair
\* with t_l < t_r and none for the others, every divisor is positive, and
\* the GPU addInterval stores scale 0 without dividing when t1 - t0 is
\* nearly zero and divides by t1 - t0 otherwise.
C9_NoZeroWidthDivision ==
    /\ (IsStages /\ out.ctx.stage = "gradient") =>
          /\ \A j \in 1..Len(out.ctx.segs) : out.ctx.segs[j].den > 0
          /\ Len(out.ctx.segs) =
                2 + Cardinality({ i \in WalkedPairs :
                                    shader.fOrigPos[i + 1] < shader.fOrigPos[i + 2] })
    /\ (IsStages /\ out.ctx.stage = "evenly_spaced_gradient") =>
          \A j \in 1..Len(out.ctx.segs) : out.ctx.segs[j].den > 0
    /\ IsEffect =>
          \A j \in 1..Len(out.fIntervals) :
              LET e == out.fIntervals[j]
              IN /\ e.den # 0
                 /\ Abs(e.dt) <= SK_ScalarNearlyZero =>
                       (e.den = 1 /\ (j % 2 = 1 => e.v = VZero))
                 /\ Abs(e.dt) > SK_ScalarNearlyZero => e.den = e.dt

\* the positioned path has walked a hard stop: two stops at one position
C9_Witness ==
    /\ IsStages
    /\ out.ctx.stage = "gradient"
    /\ \E i \in WalkedPairs : shader.fOrigPos[i + 1] = shader.fOrigPos[i + 2]

\* C10: for two colors with implicit uniform spacing the 2-stop fast path
\* stores scale = c1 - c0 and bias = c0, and at every t in
\* {0, 0.25, 0.5, 0.75, 1} it evaluates to the same color as the general
\* evenly spaced path run on the same two stops.
C10_TwoStopEquivalence ==
    (IsStages /\ shader.fColorCount = 2 /\ shader.fOrigPos = NoPos) =>
        /\ out.ctx.stage = "evenly_spaced_2_stop_gradient"
        /\ out.ctx.f_and_b = << VSub(prepareColor(shader, 1), prepareColor(shader, 0)),
                                prepareColor(shader, 0) >>
        /\ \A tn \in 0..4 :
              RatEq(Eval2Stop(out.ctx, tn, 4), EvalEvenly(EvenlyStage(shader), tn, 4))

\* the fast path was taken for two different colors, one of them translucent
C10_Witness ==
    /\ IsStages
    /\ shader.fColorCount = 2
    /\ shader.fOrigPos = NoPos
    /\ out.ctx.stage = "evenly_spaced_2_stop_gradient"
    /\ shader.fOrigColors4f[1] # shader.fOrigColors4f[2]
    /\ shader.fOrigColors4f[1][4] < ColScale

\* C26: the strategy the effect chose and the intervals it stored agree:
\* kSingle has 2 entries, each threshold strategy has 4 and kTexture has
\* none; and kTexture is chosen exactly when there are more than 4 colors,
\* or 4 colors that are not explicitly positioned with the two middle
\* stops nearly coinciding.
C26_StrategyMatchesIntervals ==
    IsEffect =>
        LET n      == shader.fColorCount
            count  == Len(out.fIntervals)
            middle == /\ shader.fOrigPos # NoPos
                      /\ Abs(shader.fOrigPos[2] - shader.fOrigPos[3]) <= SK_ScalarNearlyZero
        IN /\ out.fStrategy \in {"kSingle", "kThreshold", "kThresholdClamp0",
                                 "kThresholdClamp1", "kTexture"}
           /\ out.fStrategy = "kSingle" => count = 2
           /\ out.fStrategy \in {"kThreshold", "kThresholdClamp0", "kThresholdClamp1"}
                 => count = 4
           /\ out.fStrategy = "kTexture" => count = 0
           /\ out.fStrategy = "kTexture" <=> (n > 4 \/ (n = 4 /\ ~middle))

\* an effect of 4 colors with one hard stop in the middle took kThreshold
C26_Witness ==
    /\ IsEffect
    /\ shader.fColorCount = 4
    /\ shader.fOrigPos # NoPos
    /\ shader.fOrigPos[2] = shader.fOrigPos[3]
    /\ out.fStrategy = "kThreshold"
    /\ Len(out.fIntervals) = 4

----------------------------------------------------------------------------
(* Claims about the cache key *)

IsKey == phase = "done" /\ out.kind = "key"

\* Other gradients to compare with: made with the same flags from the same
\* arrays or from the same colors without positions, with any tile mode and
\* with or without a local matrix
KeyPeers ==
    { SkGradientShaderBase(
          LET opt == ColorStopOptimizer(r.colors, r.pos, r.count, mode)
          IN desc_init(opt.fColors, opt.fPos, opt.fCount, mode, desc.fGradFlags, m)) :
        r \in {raw, [raw EXCEPT !.pos = NoPos]},
        mode \in TileModes, m \in {NoMatrix, ScaleMatrix} }

\* the stop position the gradient uses for its 0-based stop i
EffectivePos(s, i) ==
    IF s.fOrigPos # NoPos THEN s.fOrigPos[i + 1]
    ELSE (i * PosScale) \div (s.fColorCount - 1)

\* two gradients agree on color count, colors, the effective positions of
\* stops 1..n-1 when n > 2, and flags
KeyInputsAgree(s, p) ==
    /\ s.fColorCount = p.fColorCount
    /\ s.fOrigColors4f = p.fOrigColors4f
    /\ s.fColorCount > 2 =>
          \A i \in 1..(s.fColorCount - 1) : EffectivePos(s, i) = EffectivePos(p, i)
    /\ s.fGradFlags = p.fGradFlags

\* C11: the key is a function of color count, colors, the effective
\* positions of stops 1..n-1 when n > 2, flags and color type: a gradient
\* that agrees with this one on all of them builds the same words in the
\* same number of bytes, whatever its tile mode and local matrix, and the
\* key has the length the code computes for it.
C11_KeyDeterminism ==
    IsKey =>
        /\ Len(out.key.storage) = out.key.count
        /\ \A p \in KeyPeers :
              KeyInputsAgree(shader, p) =>
                  LET k == TableKey(p, xformedColors(p), out.colorType)
                  IN /\ k.storage = out.key.storage
                     /\ k.size = out.key.size

\* a key was built for a gradient with more than two stops and explicit
\* positions, and a gradient with another tile mode and another local
\* matrix agrees with it on the key's inputs
C11_Witness ==
    /\ IsKey
    /\ shader.fColorCount > 2
    /\ shader.fOrigPos # NoPos
    /\ \E p \in KeyPeers :
          /\ KeyInputsAgree(shader, p)
          /\ p.fTileMode # shader.fTileMode
          /\ p.fLocalMatrix # shader.fLocalMatrix

----------------------------------------------------------------------------
(* Claims about the factories *)

HasReturned == phase = "returned"

\* the input every factory must reject: null colors, a count below 1, a
\* tile mode outside the enum
InvalidCommon ==
    \/ raw.colors = NoColors
    \/ raw.count < 1
    \/ out.args.mode \notin TileModes

\* the geometry the factory called must reject
InvalidGeometry ==
    CASE out.args.factory = "MakeLinear" -> out.args.pts # "finite"
      [] out.args.factory = "MakeRadial" -> out.args.radius <= 0
      [] out.args.factory = "MakeTwoPointConical" ->
            out.args.startRadius < 0 \/ out.args.endRadius < 0
      [] out.args.factory = "MakeSweep" ->
            \/ ~out.args.startAngle.finite
            \/ ~out.args.endAngle.finite
            \/ out.args.startAngle.v >= out.args.endAngle.v

Rejected == out.result \in {"nullptr", "SkEmptyShader"} /\ shader = None

\* C16 as stated: every factory answers invalid input, geometry included,
\* with a null or empty result and constructs nothing, for every color
\* count.
C16_FactoriesReject ==
    (HasReturned /\ (InvalidCommon \/ InvalidGeometry)) => Rejected

\* C16, what holds: invalid input is rejected by every factory except that
\* MakeSweep, given one color, returns a color shader whatever its angles;
\* no gradient is ever constructed from invalid input.
C16_RejectsExceptOneColorSweep ==
    (HasReturned /\ (InvalidCommon \/ InvalidGeometry)) =>
        \/ Rejected
        \/ /\ out.args.factory = "MakeSweep"
           /\ raw.count = 1
           /\ ~InvalidCommon
           /\ out.result = "SkColorShader"
           /\ shader = None

\* MakeSweep was called with one color and a start angle not below the end
\* angle
C16_Witness ==
    /\ HasReturned
    /\ out.args.factory = "MakeSweep"
    /\ raw.count = 1
    /\ ~InvalidCommon
    /\ out.args.startAngle = Finite(90)
    /\ out.args.endAngle = Finite(0)

----------------------------------------------------------------------------
(* Claims about serialization *)

IsUnflattened == phase = "done" /\ out.kind = "descriptor"

\* C12: flattening a gradient and unflattening the buffer gives a valid
\* descriptor with the gradient's color count, colors, tile mode and flags;
\* its position array is present exactly when the gradient holds explicit
\* positions and then equals them, so the effective positions are the same;
\* its local matrix is present exactly when the gradient's local matrix is
\* not the identity and then equals it.
C12_FlattenRoundTrip ==
    IsUnflattened =>
        LET d == out.desc
        IN /\ d.valid
           /\ d.fCount = shader.fColorCount
           /\ d.fColors = shader.fOrigColors4f
           /\ d.fPos = shader.fOrigPos
           /\ (d.fPos # NoPos) <=> (shader.fOrigPos # NoPos)
           /\ \A i \in 0..(d.fCount - 1) :
                 (IF d.fPos # NoPos THEN d.fPos[i + 1]
                  ELSE (i * PosScale) \div (d.fCount - 1)) = EffectivePos(shader, i)
           /\ d.fTileMode = shader.fTileMode
           /\ d.fGradFlags = shader.fGradFlags
           /\ (d.fLocalMatrix # NoMatrix) <=> (shader.fLocalMatrix # SkMatrixI)
           /\ d.fLocalMatrix # NoMatrix => d.fLocalMatrix = shader.fLocalMatrix
           /\ Len(out.buffer) =
                 1 + (1 + 4 * shader.fColorCount) + 2
                 + (IF shader.fOrigPos # NoPos THEN 1 + shader.fColorCount ELSE 0)
                 + (IF shader.fLocalMatrix # SkMatrixI THEN 9 ELSE 0)

\* a gradient with explicit positions, the premul flag, Mirror tiling and a
\* local matrix has been flattened and read back
C12_Witness ==
    /\ IsUnflattened
    /\ shader.fOrigPos # NoPos
    /\ shader.fGradFlags = kInterpolateColorsInPremul_Flag
    /\ shader.fTileMode = kMirror_TileMode
    /\ shader.fLocalMatrix = ScaleMatrix
    /\ out.desc.valid

\* C21: in the flags word the fields do not overlap: bit 31, bit 30 and
\* bit 29 are has-position, has-local-matrix and has-color-space, bits 11:8
\* are the tile mode and bits 7:0 the gradient flags, bits 28:12 are zero,
\* and unflatten reads back the same tile mode, flags and booleans.
C21_FlagsLayout ==
    (phase = "read" /\ out.kind = "read") =>
        LET hi == out.flags.hi
            lo == out.flags.lo
        IN /\ hi \in 0..65535 /\ lo \in 0..65535
           /\ (hi \div 32768) % 2 = B2I(raw.hasPos)
           /\ (hi \div 16384) % 2 = B2I(raw.hasLocalMatrix)
           /\ (hi \div 8192) % 2 = B2I(raw.hasColorSpaceData)
           /\ hi % 8192 = 0
           /\ lo \div 4096 = 0
           /\ (lo \div 256) % 16 = raw.tileMode
           /\ lo % 256 = raw.gradFlags
           /\ out.fTileMode = raw.tileMode
           /\ out.fGradFlags = raw.gradFlags
           /\ out.hasPos = raw.hasPos
           /\ out.hasLocalMatrix = raw.hasLocalMatrix
           /\ out.hasColorSpaceData = raw.hasColorSpaceData

\* the word with every field at its largest value has been read back
C21_Witness ==
    /\ phase = "read"
    /\ out.kind = "read"
    /\ raw.tileMode = 15
    /\ raw.gradFlags = 255
    /\ raw.hasPos /\ raw.hasLocalMatrix /\ raw.hasColorSpaceData
    /\ out.flags = Word(57344, 4095)

----------------------------------------------------------------------------
(* Claims about the progress of the callers of the cache *)

\* some step of the cache is possible
CanStep ==
    \E t \in Threads :
        \/ pc[t] = "idle" /\ t \in Callers
        \/ pc[t] = "lock" /\ mutex = 0
        \/ pc[t] \notin {"idle", "lock"}

\* C24: with a fair lock and fair scheduling every call of
\* getGradientTableBitmap returns, and it returns with the mutex released:
\* a caller inside the function is eventually outside it, a caller outside
\* it does not hold the mutex, the mutex never stays with one caller, and
\* in every reachable state some caller can take a step.
C24_CallsReturn ==
    /\ \A t \in Threads : (pc[t] # "idle") ~> (pc[t] = "idle" /\ mutex # t)
    /\ \A t \in Threads : (mutex = t) ~> (mutex # t)
    /\ [](\A t \in Threads : pc[t] = "idle" => mutex # t)
    /\ [](\A t \in Threads : pc[t] \notin {"idle", "lock"} => mutex = t)
    /\ []CanStep

\* a caller waits for the mutex while another builds a table under it,
\* after a call for the waiting caller's key has already returned
C24_Witness ==
    \E t \in Threads, u \in Threads :
        /\ t # u
        /\ pc[t] = "lock"
        /\ mutex = u
        /\ pc[u] = "init2"
        /\ returned[key[t]].id # 0

----------------------------------------------------------------------------
(* Claims about the tables the cache returns *)

HasBitmap == phase = "returned" /\ out.kind = "bitmap"

\* the table a build for the gradient that asked would write
FreshBuild ==
    Contents(shader, initLinearBitmap(shader, xformedColors(shader), out.colorType))

\* C22: the bitmap getGradientTableBitmap returns, found in the cache or
\* built, was stored under the key of the request and holds in all 256
\* texels what a fresh build for the gradient that asked would write.
C22_HitEqualsFreshBuild ==
    HasBitmap =>
        /\ out.id \in 1..Len(pixels)
        /\ pixels[out.id].key = TableKey(shader, xformedColors(shader), out.colorType)
        /\ pixels[out.id].contents = FreshBuild

\* a hit on a table that was built for a gradient made from other input
C22_Witness ==
    /\ HasBitmap
    /\ out.hit
    /\ shader.fColorCount = 3
    /\ shader.fOrigPos = NoPos
    /\ raw.pos # NoPos
    /\ \E i \in 1..3 : shader.fOrigColors4f[i][4] < ColScale

IsRebuilt == phase = "done" /\ out.kind = "rebuilt"

\* C27: the constructor run on the descriptor flatten makes of a gradient
\* (its stored colors, its stored positions or none, its color count)
\* inserts no dummy stop, keeps the color count, the colors and every
\* position, holds a position array exactly when the gradient does, and
\* finds the same opacity: it makes the same gradient again.
C27_Idempotent ==
    IsRebuilt =>
        /\ ~dummyFirst(out.desc)
        /\ ~dummyLast(out.desc)
        /\ out.shader.fColorCount = shader.fColorCount
        /\ out.shader.fOrigColors4f = shader.fOrigColors4f
        /\ (out.shader.fOrigPos = NoPos) <=> (shader.fOrigPos = NoPos)
        /\ out.shader.fOrigPos = shader.fOrigPos
        /\ \A i \in 0..(shader.fColorCount - 1) : getPos(out.shader, i) = getPos(shader, i)
        /\ out.shader.fColorsAreOpaque = shader.fColorsAreOpaque
        /\ out.shader = shader

\* every gap of a position array is within SK_ScalarNearlyZero of its first
\* gap: the test of the constructor's loop, made on stored positions
NearlyUniform(pos) ==
    \A i \in 2..Len(pos) : SkScalarNearlyEqual(pos[2] - pos[1], pos[i] - pos[i - 1])

\* C27: the constructor run on the descriptor flatten makes of a gradient
\* inserts no dummy stop and keeps the color count, the colors and the
\* opacity; it makes the same gradient again unless the stored positions
\* pass the uniformity test themselves, and then it drops them.
C27_IdempotentUnlessNearlyUniform ==
    IsRebuilt =>
        /\ ~dummyFirst(out.desc)
        /\ ~dummyLast(out.desc)
        /\ out.shader.fColorCount = shader.fColorCount
        /\ out.shader.fOrigColors4f = shader.fOrigColors4f
        /\ out.shader.fColorsAreOpaque = shader.fColorsAreOpaque
        /\ IF shader.fOrigPos # NoPos /\ NearlyUniform(shader.fOrigPos)
           THEN out.shader.fOrigPos = NoPos
           ELSE out.shader = shader

\* a gradient was made again that holds positions, got both dummy stops
\* and had a caller position pinned
C27_Witness ==
    /\ IsRebuilt
    /\ shader.fOrigPos # NoPos
    /\ out.shader.fOrigPos # NoPos
    /\ shader.fColorCount = raw.count + 2
    /\ \E i \in 1..raw.count : raw.pos[i] < 0 \/ raw.pos[i] > SK_Scalar1
    /\ ~shader.fColorsAreOpaque

----------------------------------------------------------------------------
(* Claims about the table cache *)

\* inside the find-or-build section: from the cache creation to the return
InSection(t) ==
    pc[t] \in {"create", "find", "alloc", "init", "init2", "immutable", "add", "unlock"}

\* a table build is in flight: from allocPixels to add
Building(t) == pc[t] \in {"alloc", "init", "init2", "immutable", "add"}

\* C2: at most one thread at a time is inside the find-or-build section and
\* it holds the mutex, so at most one table is under construction, and while
\* a build is in flight no waiting caller, whatever its key, can enter.
C2_OneBuilderAtATime ==
    /\ \A t \in Threads : InSection(t) => mutex = t
    /\ \A t, u \in Threads : (t # u) => ~(InSection(t) /\ InSection(u))
    /\ Cardinality({ t \in Threads : Building(t) }) <= 1
    /\ Cardinality({ i \in 1..Len(pixels) : ~pixels[i].immutable }) <= 1
    /\ \A t, u \in Threads :
          (Building(t) /\ u # t /\ pc[u] = "lock") => ~ENABLED Acquire(u)

\* one thread is writing a table while another waits with a different key
C2_Witness ==
    \E t, u \in Threads :
        /\ pc[t] = "init2"
        /\ pc[u] = "lock"
        /\ key[u] # key[t]

\* C3 as stated: a call whose key was returned before returns that same
\* table instance and does not run initLinearBitmap.
C3_BuiltOncePerKey ==
    \A t \in Threads :
        (pc[t] = "unlock" /\ returned[key[t]].id # 0) =>
            (bitmap[t] = returned[key[t]].id /\ ~didInit[t])

\* C3 amended: a call whose key was returned before, and whose entry has not
\* been evicted from the cache since that return, returns that same table
\* instance and does not run initLinearBitmap.
C3_SameInstanceUntilEvicted ==
    \A t \in Threads :
        (/\ pc[t] = "unlock"
         /\ returned[key[t]].id # 0
         /\ evictions[key[t]] = returned[key[t]].ev) =>
            (bitmap[t] = returned[key[t]].id /\ ~didInit[t])

\* with two threads calling, a call is about to return the table an earlier
\* call built and returned for the same key
C3_Witness ==
    \E t \in Threads :
        /\ ~sweep
        /\ pc[t] = "unlock"
        /\ returned[key[t]].id # 0
        /\ bitmap[t] = returned[key[t]].id
        /\ ~didInit[t]
        /\ \E u \in Threads : u # t /\ bitmap[u] = bitmap[t]

CachedKeys(c) == { c.entries[i].key : i \in 1..Len(c.entries) }

\* C14: the cache does not exist until the first call reaches it, is then
\* created with capacity 32 and never replaced (an entry leaves it only by
\* eviction), never holds more than 32 entries nor two entries of one key,
\* and an add at capacity keeps the size at 32 by evicting one entry.
C14_CacheBounded ==
    /\ [](/\ gCache = NoCache =>
                /\ pixels = << >>
                /\ \A t \in Threads : pc[t] \in {"idle", "lock", "create"}
          /\ gCache # NoCache =>
                /\ gCache.fMaxEntries = 32
                /\ Len(gCache.entries) <= 32
                /\ Cardinality(CachedKeys(gCache)) = Len(gCache.entries))
    /\ [][gCache # NoCache =>
              /\ gCache' # NoCache
              /\ gCache'.fMaxEntries = gCache.fMaxEntries
              /\ Len(gCache'.entries) >= Len(gCache.entries)
              /\ \A k \in CachedKeys(gCache) :
                     k \in CachedKeys(gCache') \/ evictions'[k] = evictions[k] + 1
              /\ (Len(gCache.entries) = 32 /\ CachedKeys(gCache') # CachedKeys(gCache)) =>
                     /\ Len(gCache'.entries) = 32
                     /\ Cardinality(CachedKeys(gCache) \ CachedKeys(gCache')) = 1
                     /\ evictions' # evictions]_vars

\* the cache is full and an add has evicted an entry
C14_Witness ==
    /\ gCache # NoCache
    /\ Len(gCache.entries) = 32
    /\ \E k \in KeyUniverse : evictions[k] > 0

\* every texel written and marked immutable
Complete(id) ==
    /\ id \in 1..Len(pixels)
    /\ pixels[id].texels = kGradientTextureSize
    /\ pixels[id].immutable

Cached(id) ==
    /\ gCache # NoCache
    /\ \E i \in 1..Len(gCache.entries) : gCache.entries[i].id = id

\* C4: a table is added only once every texel is written and it is marked
\* immutable, so every table in the cache, about to be returned or returned
\* is complete and immutable, and no step changes the storage of a cached
\* table.
C4_PublishedTablesComplete ==
    /\ [](/\ \A t \in Threads : pc[t] = "add" => Complete(bitmap[t])
          /\ \A t \in Threads : pc[t] = "immutable" =>
                 pixels[bitmap[t]].texels = kGradientTextureSize
          /\ \A id \in 1..Len(pixels) : Cached(id) => Complete(id)
          /\ \A t \in Threads :
                 (pc[t] = "unlock" \/ (pc[t] = "idle" /\ bitmap[t] # 0)) =>
                     Complete(bitmap[t]))
    /\ [][\A id \in 1..Len(pixels) : Cached(id) => pixels'[id] = pixels[id]]_vars

\* one caller has been returned a table on a miss, another is about to be
\* returned the same table on a hit
C4_Witness ==
    \E t, u \in Threads :
        /\ t # u
        /\ pc[t] = "idle"
        /\ didInit[t]
        /\ pc[u] = "unlock"
        /\ ~didInit[u]
        /\ bitmap[u] = bitmap[t]
        /\ Cached(bitmap[t])

====
